---- MODULE Spec2Model ----
(***************************************************************************)
(* Paper-trading ledger of the OpenClaw trading engine (src/engine.py):    *)
(* Position, Portfolio.buy / sell / update_prices / save / load and the    *)
(* equity-history throttle, as a state machine.                            *)
(*                                                                         *)
(* Numbers.  The code computes with Python floats.  The model computes     *)
(* with exact rationals <<n, d>> (d > 0, lowest terms), so two numbers are *)
(* equal exactly when their tuples are equal.  IEEE-754 rounding is not    *)
(* modelled: every property below is a property of the arithmetic the code *)
(* writes down, evaluated exactly.  Python's None is the tuple <<0, 0>>,   *)
(* which is no rational.                                                   *)
(***************************************************************************)
EXTENDS Integers, Sequences, FiniteSets, TLC

VARIABLES
    starting_cash,   \* Portfolio.starting_cash
    cash,            \* Portfolio.cash
    positions,       \* Portfolio.positions: symbol -> Position
    trade_history,   \* Portfolio.trade_history
    created_at,      \* Portfolio.created_at
    last_updated,    \* Portfolio.last_updated
    portfolio_file,  \* content of <data_dir>/portfolio.json
    history_file,    \* content of <data_dir>/value_history.json
    clock,           \* datetime.datetime.now(), in seconds
    call,            \* the call made by the last step, with its arguments
    result,          \* what that call returned
    running,         \* live_trader.running / multi_trader.running
    pc,              \* where main of live_trader is
    eastern,         \* get_eastern_now(): weekday and minute of the day
    settings,        \* the command line of live_trader
    data_dirs,       \* the files under BOTS_DIR, by bot id
    fleet            \* where run_all_bots of multi_trader is, and its results

\* the state of the two main loops
main_vars == <<running, pc, eastern, settings, data_dirs, fleet>>

vars == <<starting_cash, cash, positions, trade_history, created_at,
          last_updated, portfolio_file, history_file, clock, call, result,
          main_vars>>

-----------------------------------------------------------------------------
(* Bounds of the model *)

\* buy and sell are offered while trade_history is shorter than this
MaxTrades == 2
\* save and load are offered while value_history.json is shorter than this
MaxHistory == 1
\* the clock advances at most this many times
MaxTicks == 2
\* seconds by which one Tick advances the clock
TickSeconds == 1800

-----------------------------------------------------------------------------
(* Rational arithmetic *)

Abs(n) == IF n < 0 THEN -n ELSE n

RECURSIVE GCD(_, _)
GCD(a, b) == IF b = 0 THEN a ELSE GCD(b, a % b)

Rat(n, d) ==
    LET s == IF d < 0 THEN -1 ELSE 1
        g == GCD(Abs(n), Abs(d))
    IN  <<(s * n) \div g, (s * d) \div g>>

None == <<0, 0>>
Zero == Rat(0, 1)
One == Rat(1, 1)

\* the products are taken after cancelling common factors, which keeps the
\* intermediate integers small
RAddBy(x, y, g) ==
    Rat(x[1] * (y[2] \div g) + y[1] * (x[2] \div g), (x[2] \div g) * y[2])
RAdd(x, y) ==
    IF x[2] = 1 /\ y[2] = 1 THEN <<x[1] + y[1], 1>>
    ELSE RAddBy(x, y, GCD(x[2], y[2]))
RSub(x, y) == RAdd(x, <<-y[1], y[2]>>)
RMulBy(x, y, g, h) ==
    <<(x[1] \div g) * (y[1] \div h), (x[2] \div h) * (y[2] \div g)>>
RMul(x, y) ==
    IF x[2] = 1 /\ y[2] = 1 THEN <<x[1] * y[1], 1>>
    ELSE RMulBy(x, y, GCD(Abs(x[1]), y[2]), GCD(Abs(y[1]), x[2]))
RDiv(x, y) == RMul(x, IF y[1] < 0 THEN <<-y[2], -y[1]>> ELSE <<y[2], y[1]>>)
RLtBy(x, y, g) == x[1] * (y[2] \div g) < y[1] * (x[2] \div g)
RLt(x, y) ==
    IF x[2] = y[2] THEN x[1] < y[1] ELSE RLtBy(x, y, GCD(x[2], y[2]))
RLeBy(x, y, g) == x[1] * (y[2] \div g) <= y[1] * (x[2] \div g)
RLe(x, y) ==
    IF x[2] = y[2] THEN x[1] <= y[1] ELSE RLeBy(x, y, GCD(x[2], y[2]))
RGt(x, y) == RLt(y, x)
RGe(x, y) == RLe(y, x)
RAbs(x) == <<Abs(x[1]), x[2]>>
RMin(x, y) == IF RLe(x, y) THEN x ELSE y
RMax(x, y) == IF RGe(x, y) THEN x ELSE y

-----------------------------------------------------------------------------
(* Inputs *)

Symbols == {"AAPL", "BTC-USD"}
Prices == {Rat(1, 1), Rat(2, 1)}
\* buy is called with quantity > 0
BuyQuantities == {Rat(2, 1)}
\* sell: quantity omitted, below, or above what one or two buys hold
SellQuantities == {None, Rat(1, 1), Rat(3, 1)}
SellPrices == Prices \cup {None}
\* starting_cash >= 0: an empty ledger, and one that affords two buys
StartingCashes == {Rat(0, 1), Rat(6, 1)}
Reasons == {"signal"}

\* price_map: a dict over any symbols, held or not, each a price or None
PriceMaps ==
    UNION {[S -> Prices \cup {None}] : S \in SUBSET Symbols}

EmptyMap == [s \in {} |-> None]

-----------------------------------------------------------------------------
(* DataFetcher.classify_asset *)

HasUsdSuffix(symbol) == symbol \in {"BTC-USD"}
Etfs == {"SPY", "QQQ", "IWM", "DIA", "VTI", "VOO", "XLF", "XLE", "XLK",
         "XLV", "ARKK", "ARKG", "GLD", "SLV", "TLT", "HYG", "VNQ", "EEM"}

classify_asset(symbol) ==
    IF HasUsdSuffix(symbol) THEN "crypto"
    ELSE IF symbol \in Etfs THEN "etf"
    ELSE "stock"

-----------------------------------------------------------------------------
(* Position *)

\* Position.__init__
Position(symbol, quantity, entry_price, entry_date, asset_type) ==
    [symbol |-> symbol,
     quantity |-> quantity,
     entry_price |-> entry_price,
     entry_date |-> entry_date,
     asset_type |-> asset_type,
     current_price |-> entry_price,
     high_since_entry |-> entry_price]

\* variant: values the position at its entry price
market_value_at_entry(pos) == RMul(pos.quantity, pos.entry_price)

market_value(pos) == RMul(pos.quantity, pos.current_price)
cost_basis(pos) == RMul(pos.quantity, pos.entry_price)
unrealized_pnl(pos) == RSub(market_value(pos), cost_basis(pos))

to_dict(pos) ==
    [symbol |-> pos.symbol,
     quantity |-> pos.quantity,
     entry_price |-> pos.entry_price,
     entry_date |-> pos.entry_date,
     asset_type |-> pos.asset_type,
     current_price |-> pos.current_price,
     high_since_entry |-> pos.high_since_entry]

\* variant: the stored high is dropped and the high restarts at the entry price
from_dict_HighReset(d) ==
    [symbol |-> d.symbol,
     quantity |-> d.quantity,
     entry_price |-> d.entry_price,
     entry_date |-> d.entry_date,
     asset_type |-> d.asset_type,
     current_price |-> d.current_price,
     high_since_entry |-> d.entry_price]

from_dict(d) ==
    [Position(d.symbol, d.quantity, d.entry_price, d.entry_date, d.asset_type)
        EXCEPT !.current_price = d.current_price,
               !.high_since_entry = d.high_since_entry]

-----------------------------------------------------------------------------
(* Portfolio: derived values *)

RECURSIVE SumMarketValue(_, _)
SumMarketValue(pos_map, syms) ==
    IF syms = {} THEN Zero
    ELSE LET s == CHOOSE x \in syms : TRUE
         IN  RAdd(market_value(pos_map[s]), SumMarketValue(pos_map, syms \ {s}))

positions_value_of(pos_map) == SumMarketValue(pos_map, DOMAIN pos_map)
total_value_of(c, pos_map) == RAdd(c, positions_value_of(pos_map))

total_positions_value == positions_value_of(positions)
total_value == total_value_of(cash, positions)
total_pnl == RSub(total_value, starting_cash)
num_positions == Cardinality(DOMAIN positions)

-----------------------------------------------------------------------------
(* Portfolio.save and Portfolio._save_value_snapshot *)

Absent == [kind |-> "absent"]

\* the state dict json.dump writes to portfolio.json
SavedState(sc, c, ca, lu, pos_map, th) ==
    [kind |-> "state",
     starting_cash |-> sc,
     cash |-> c,
     created_at |-> ca,
     last_updated |-> lu,
     positions |-> [s \in DOMAIN pos_map |-> to_dict(pos_map[s])],
     trade_history |-> th]

SnapshotInterval == 3600

\* variant: either test alone holds the snapshot back
SnapshotSkipped_EitherTest(history, now, tv) ==
    /\ history /= <<>>
    /\ LET last == history[Len(history)]
       IN  \/ now - last.timestamp < SnapshotInterval
           \/ RLt(RAbs(RSub(tv, last.total_value)), One)

\* the throttle: within the hour and the value moved by less than 1
SnapshotSkipped(history, now, tv) ==
    /\ history /= <<>>
    /\ LET last == history[Len(history)]
       IN  /\ now - last.timestamp < SnapshotInterval
           /\ RLt(RAbs(RSub(tv, last.total_value)), One)

HistoryAfterSnapshot(history, now, c, pos_map) ==
    LET snapshot == [timestamp |-> now,
                     total_value |-> total_value_of(c, pos_map),
                     cash |-> c,
                     positions_value |-> positions_value_of(pos_map),
                     num_positions |-> Cardinality(DOMAIN pos_map)]
    IN  IF SnapshotSkipped(history, now, total_value_of(c, pos_map))
        THEN history
        ELSE Append(history, snapshot)

CanSave == Len(history_file) < MaxHistory

-----------------------------------------------------------------------------
(* The call record and return values *)

Call(op, symbol, quantity, price, price_map) ==
    [op |-> op, symbol |-> symbol, quantity |-> quantity, price |-> price,
     price_map |-> price_map]

\* buy and sell return (success, message); the message is kept by its template
Returned(ok, msg) == [ok |-> ok, msg |-> msg]
ReturnedNone == Returned(TRUE, "None")

-----------------------------------------------------------------------------

-----------------------------------------------------------------------------
(* The main loops before they are entered *)

\* multi_trader.BOT_ROSTER, by id
BOT_ROSTER == <<"momentum_pete", "cautious_carl", "mean_reversion_mary",
                "volume_victor", "yolo_yolanda">>
BotIds == {BOT_ROSTER[i] : i \in 1..Len(BOT_ROSTER)}

\* a data directory with no file in it
EmptyDir == [portfolio_file |-> Absent, history_file |-> <<>>]

\* multi_trader.main before its first tick
FleetIdle(scan_only) ==
    [pc |-> "main", scan_only |-> scan_only, ticks |-> 0, next |-> 1,
     results |-> <<>>, ranked |-> <<>>]

\* `running = True` of the module, no loop entered, no bot run
MainNotStarted ==
    /\ running = TRUE
    /\ pc = "main"
    /\ eastern = [weekday |-> 0, minute |-> 0]
    /\ settings = [extended |-> FALSE, crypto_247 |-> FALSE]
    /\ data_dirs = [b \in BotIds |-> EmptyDir]
    /\ fleet = FleetIdle(FALSE)

Init ==
    /\ starting_cash \in StartingCashes
    /\ cash = starting_cash
    /\ positions = EmptyMap
    /\ trade_history = <<>>
    /\ clock = 0
    /\ created_at = 0
    /\ last_updated = 0
    /\ portfolio_file = Absent
    /\ history_file = <<>>
    /\ call = Call("init", "", None, None, EmptyMap)
    /\ result = ReturnedNone
    /\ MainNotStarted

-----------------------------------------------------------------------------
(* Portfolio.buy *)

\* variant: rejects a cost equal to the cash
InsufficientCash_OrEqual(cost, c) == RGe(cost, c)

\* variant: compares the cost with the starting cash, not the cash left
InsufficientCash_VsStartingCash(cost, c) == RGt(cost, starting_cash)

InsufficientCash(cost, c) == RGt(cost, c)

\* variant: the entry price is overwritten by the trade price
AveragedPosition_LastPrice(existing, quantity, price) ==
    [existing EXCEPT !.quantity = RAdd(existing.quantity, quantity),
                     !.entry_price = price,
                     !.current_price = price]

\* variant: averaging keeps the entry price of the first purchase
AveragedPosition_KeepsEntry(existing, quantity, price) ==
    [existing EXCEPT !.quantity = RAdd(existing.quantity, quantity),
                     !.current_price = price]

\* "Average into existing position"
AveragedPosition(existing, quantity, price) ==
    LET total_qty == RAdd(existing.quantity, quantity)
        avg_price == RDiv(RAdd(RMul(existing.quantity, existing.entry_price),
                               RMul(quantity, price)),
                          total_qty)
    IN  [existing EXCEPT !.quantity = total_qty,
                         !.entry_price = avg_price,
                         !.current_price = price]

PositionsAfterBuy(pos_map, symbol, quantity, price, asset_type, now) ==
    IF symbol \in DOMAIN pos_map
    THEN [pos_map EXCEPT ![symbol] = AveragedPosition(pos_map[symbol], quantity, price)]
    ELSE [s \in DOMAIN pos_map \cup {symbol} |->
            IF s = symbol
            THEN Position(symbol, quantity, price, now, asset_type)
            ELSE pos_map[s]]

\* variant: cash_after holds the cash before the purchase
BuyTrade_CashBefore(now, symbol, quantity, price, cost, asset_type, reason, cash_after) ==
    [timestamp |-> now,
     action |-> "BUY",
     symbol |-> symbol,
     quantity |-> quantity,
     price |-> price,
     total |-> cost,
     asset_type |-> asset_type,
     reason |-> reason,
     cash_after |-> RAdd(cash_after, cost)]

BuyTrade(now, symbol, quantity, price, cost, asset_type, reason, cash_after) ==
    [timestamp |-> now,
     action |-> "BUY",
     symbol |-> symbol,
     quantity |-> quantity,
     price |-> price,
     total |-> cost,
     asset_type |-> asset_type,
     reason |-> reason,
     cash_after |-> cash_after]

buy(symbol, quantity, price, asset_type, reason) ==
    /\ Len(trade_history) < MaxTrades
    /\ call' = Call("buy", symbol, quantity, price, EmptyMap)
    /\ LET cost == RMul(quantity, price)
       IN  IF InsufficientCash(cost, cash)
           THEN /\ result' = Returned(FALSE, "Insufficient cash")
                /\ UNCHANGED <<main_vars, starting_cash, cash, positions, trade_history,
                               created_at, last_updated, portfolio_file,
                               history_file, clock>>
           ELSE LET new_cash == RSub(cash, cost)
                    new_positions == PositionsAfterBuy(positions, symbol, quantity,
                                                       price, asset_type, clock)
                    trade == BuyTrade(clock, symbol, quantity, price, cost,
                                      asset_type, reason, new_cash)
                    new_history == Append(trade_history, trade)
                IN  /\ cash' = new_cash
                    /\ positions' = new_positions
                    /\ trade_history' = new_history
                    /\ last_updated' = clock
                    /\ portfolio_file' = SavedState(starting_cash, new_cash, created_at,
                                                    clock, new_positions, new_history)
                    /\ history_file' = HistoryAfterSnapshot(history_file, clock,
                                                            new_cash, new_positions)
                    /\ result' = Returned(TRUE, "Bought")
                    /\ UNCHANGED <<main_vars, starting_cash, created_at, clock>>

-----------------------------------------------------------------------------
(* Portfolio.sell *)

\* variant: the comparison is the wrong way round
ExceedsHeld_Inverted(quantity, pos) == RLt(quantity, pos.quantity)

ExceedsHeld(quantity, pos) == RGt(quantity, pos.quantity)

\* variant: pnl against the last marked price instead of the entry price
SellTrade_PnlVsCurrent(now, symbol, quantity, price, pos, reason, cash_after) ==
    [timestamp |-> now,
     action |-> "SELL",
     symbol |-> symbol,
     quantity |-> quantity,
     price |-> price,
     total |-> RMul(quantity, price),
     pnl |-> RMul(RSub(price, pos.current_price), quantity),
     pnl_pct |-> RMul(RDiv(RSub(price, pos.entry_price), pos.entry_price),
                      Rat(100, 1)),
     asset_type |-> pos.asset_type,
     reason |-> reason,
     cash_after |-> cash_after]

SellTrade(now, symbol, quantity, price, pos, reason, cash_after) ==
    [timestamp |-> now,
     action |-> "SELL",
     symbol |-> symbol,
     quantity |-> quantity,
     price |-> price,
     total |-> RMul(quantity, price),
     pnl |-> RMul(RSub(price, pos.entry_price), quantity),
     pnl_pct |-> RMul(RDiv(RSub(price, pos.entry_price), pos.entry_price),
                      Rat(100, 1)),
     asset_type |-> pos.asset_type,
     reason |-> reason,
     cash_after |-> cash_after]

\* variant: the position is removed only when more than held is sold
PositionsAfterSell_KeepsEmpty(pos_map, symbol, quantity) ==
    IF RGt(quantity, pos_map[symbol].quantity)
    THEN [s \in DOMAIN pos_map \ {symbol} |-> pos_map[s]]
    ELSE [pos_map EXCEPT ![symbol].quantity = RSub(@, quantity)]

PositionsAfterSell(pos_map, symbol, quantity) ==
    IF RGe(quantity, pos_map[symbol].quantity)
    THEN [s \in DOMAIN pos_map \ {symbol} |-> pos_map[s]]
    ELSE [pos_map EXCEPT ![symbol].quantity = RSub(@, quantity)]

sell(symbol, quantity, price, reason) ==
    /\ Len(trade_history) < MaxTrades
    /\ call' = Call("sell", symbol, quantity, price, EmptyMap)
    /\ IF symbol \notin DOMAIN positions
       THEN /\ result' = Returned(FALSE, "No position")
            /\ UNCHANGED <<main_vars, starting_cash, cash, positions, trade_history,
                           created_at, last_updated, portfolio_file,
                           history_file, clock>>
       ELSE LET pos == positions[symbol]
                qty == IF quantity = None THEN pos.quantity ELSE quantity
            IN  IF ExceedsHeld(qty, pos)
                THEN /\ result' = Returned(FALSE, "Only have")
                     /\ UNCHANGED <<main_vars, starting_cash, cash, positions, trade_history,
                                    created_at, last_updated, portfolio_file,
                                    history_file, clock>>
                ELSE LET px == IF price = None THEN pos.current_price ELSE price
                         new_cash == RAdd(cash, RMul(qty, px))
                         trade == SellTrade(clock, symbol, qty, px, pos, reason,
                                            new_cash)
                         new_history == Append(trade_history, trade)
                         new_positions == PositionsAfterSell(positions, symbol, qty)
                     IN  /\ cash' = new_cash
                         /\ trade_history' = new_history
                         /\ positions' = new_positions
                         /\ last_updated' = clock
                         /\ portfolio_file' = SavedState(starting_cash, new_cash,
                                                         created_at, clock,
                                                         new_positions, new_history)
                         /\ history_file' = HistoryAfterSnapshot(history_file, clock,
                                                                 new_cash, new_positions)
                         /\ result' = Returned(TRUE, "Sold")
                         /\ UNCHANGED <<main_vars, starting_cash, created_at, clock>>

-----------------------------------------------------------------------------
(* Portfolio.update_prices *)

Priced(symbol, price_map) ==
    symbol \in DOMAIN price_map /\ price_map[symbol] /= None

\* variant: the high is overwritten by every new price
RepricedPosition_HighFollows(pos, price) ==
    [pos EXCEPT !.current_price = price, !.high_since_entry = price]

RepricedPosition(pos, price) ==
    [pos EXCEPT !.current_price = price,
                !.high_since_entry = IF RGt(price, pos.high_since_entry)
                                     THEN price
                                     ELSE pos.high_since_entry]

\* variant: update_prices persists the ledger itself
update_prices_Saving(price_map) ==
    LET new_positions == [s \in DOMAIN positions |->
                            IF Priced(s, price_map)
                            THEN RepricedPosition(positions[s], price_map[s])
                            ELSE positions[s]]
    IN  /\ call' = Call("update_prices", "", None, None, price_map)
        /\ positions' = new_positions
        /\ last_updated' = clock
        /\ portfolio_file' = SavedState(starting_cash, cash, created_at, clock,
                                        new_positions, trade_history)
        /\ history_file' = HistoryAfterSnapshot(history_file, clock, cash,
                                                new_positions)
        /\ result' = ReturnedNone
        /\ UNCHANGED <<main_vars, starting_cash, cash, trade_history, created_at, clock>>

update_prices(price_map) ==
    /\ call' = Call("update_prices", "", None, None, price_map)
    /\ positions' = [s \in DOMAIN positions |->
                        IF Priced(s, price_map)
                        THEN RepricedPosition(positions[s], price_map[s])
                        ELSE positions[s]]
    /\ last_updated' = clock
    /\ result' = ReturnedNone
    /\ UNCHANGED <<main_vars, starting_cash, cash, trade_history, created_at,
                   portfolio_file, history_file, clock>>

-----------------------------------------------------------------------------
(* Portfolio.save, called on its own (after update_prices, by the callers) *)

save ==
    /\ CanSave \/ SnapshotSkipped(history_file, clock, total_value)
    /\ call' = Call("save", "", None, None, EmptyMap)
    /\ portfolio_file' = SavedState(starting_cash, cash, created_at, last_updated,
                                    positions, trade_history)
    /\ history_file' = HistoryAfterSnapshot(history_file, clock, cash, positions)
    /\ result' = ReturnedNone
    /\ UNCHANGED <<main_vars, starting_cash, cash, positions, trade_history, created_at,
                   last_updated, clock>>

-----------------------------------------------------------------------------
(* Portfolio.load: a process start *)

\* the snapshot files that load does not replay: json.load fails on a
\* truncated file, state["cash"] and Position.from_dict's d["quantity"] fail
\* on a missing key, reading fails on bytes that are not UTF-8, and state.get
\* fails on JSON that is not an object
CorruptKinds == {"truncated", "no_cash", "bad_position", "not_utf8", "not_object"}

\* the exception that reading and replaying the snapshot raises
LoadError(file) ==
    CASE file.kind = "truncated" -> "JSONDecodeError"
      [] file.kind = "no_cash" -> "KeyError"
      [] file.kind = "bad_position" -> "KeyError"
      [] file.kind = "not_utf8" -> "UnicodeDecodeError"
      [] file.kind = "not_object" -> "AttributeError"
      [] OTHER -> "none"

\* except (json.JSONDecodeError, KeyError, IOError)
CaughtByLoad == {"JSONDecodeError", "KeyError", "IOError"}

\* load writes a new ledger when there is no file or the handler runs
LoadSaves(file) == file.kind = "absent" \/ LoadError(file) \in CaughtByLoad

\* an exception that leaves load
Raised(exception) == [ok |-> FALSE, msg |-> exception]

\* the file is damaged behind the program's back; what it held stays in it
corrupt(kind) ==
    /\ portfolio_file.kind = "state"
    /\ portfolio_file' = [portfolio_file EXCEPT !.kind = kind]
    /\ call' = Call("corrupt", "", None, None, EmptyMap)
    /\ result' = ReturnedNone
    /\ UNCHANGED <<main_vars, starting_cash, cash, positions, trade_history, created_at,
                   last_updated, history_file, clock>>

load(config_starting_cash) ==
    /\ LoadSaves(portfolio_file) =>
          \/ CanSave
          \/ SnapshotSkipped(history_file, clock, config_starting_cash)
    /\ call' = Call("load", "", None, config_starting_cash, EmptyMap)
    /\ IF LoadSaves(portfolio_file)
       THEN \* no file, or a caught exception: a new Portfolio, saved at once
            /\ starting_cash' = config_starting_cash
            /\ cash' = config_starting_cash
            /\ positions' = EmptyMap
            /\ trade_history' = <<>>
            /\ created_at' = clock
            /\ last_updated' = clock
            /\ portfolio_file' = SavedState(config_starting_cash, config_starting_cash,
                                            clock, clock, EmptyMap, <<>>)
            /\ history_file' = HistoryAfterSnapshot(history_file, clock,
                                                    config_starting_cash, EmptyMap)
            /\ result' = ReturnedNone
            /\ UNCHANGED <<main_vars, clock>>
       ELSE IF LoadError(portfolio_file) = "none"
       THEN /\ starting_cash' = portfolio_file.starting_cash
            /\ cash' = portfolio_file.cash
            /\ created_at' = portfolio_file.created_at
            /\ last_updated' = portfolio_file.last_updated
            /\ trade_history' = portfolio_file.trade_history
            /\ positions' = [s \in DOMAIN portfolio_file.positions |->
                                from_dict(portfolio_file.positions[s])]
            /\ result' = ReturnedNone
            /\ UNCHANGED <<main_vars, portfolio_file, history_file, clock>>
       ELSE \* the exception is not caught: no ledger is returned
            /\ result' = Raised(LoadError(portfolio_file))
            /\ UNCHANGED <<main_vars, starting_cash, cash, positions, trade_history,
                           created_at, last_updated, portfolio_file,
                           history_file, clock>>

-----------------------------------------------------------------------------
(* Time passes *)

Tick ==
    /\ clock < MaxTicks * TickSeconds
    /\ clock' = clock + TickSeconds
    /\ call' = Call("tick", "", None, None, EmptyMap)
    /\ result' = ReturnedNone
    /\ UNCHANGED <<main_vars, starting_cash, cash, positions, trade_history, created_at,
                   last_updated, portfolio_file, history_file>>

-----------------------------------------------------------------------------
Next ==
    \/ \E s \in Symbols, q \in BuyQuantities, p \in Prices, r \in Reasons :
          buy(s, q, p, classify_asset(s), r)
    \/ \E s \in Symbols, q \in SellQuantities, p \in SellPrices, r \in Reasons :
          sell(s, q, p, r)
    \/ \E pm \in PriceMaps : update_prices(pm)
    \/ save
    \/ \E sc \in StartingCashes : load(sc)

\* the ledger with the clock standing still
Spec == Init /\ [][Next]_vars

\* the ledger with time passing between the calls
NextTimed == Next \/ Tick
SpecTimed == Init /\ [][NextTimed]_vars

\* the ledger and its snapshot file: one symbol at prices whose moves stay
\* under the snapshot throttle, with the file damaged between the calls
StorageSymbols == {"AAPL"}
StoragePrices == {Rat(1, 4), Rat(1, 2)}
StorageSellQuantities == {None, Rat(1, 1)}

NextStorage ==
    \/ \E s \in StorageSymbols, q \in BuyQuantities, p \in StoragePrices,
          r \in Reasons :
          buy(s, q, p, classify_asset(s), r)
    \/ \E s \in StorageSymbols, q \in StorageSellQuantities, r \in Reasons :
          sell(s, q, None, r)
    \/ \E pm \in [StorageSymbols -> StoragePrices] : update_prices(pm)
    \/ save
    \/ \E sc \in StartingCashes : load(sc)
    \/ \E kind \in CorruptKinds : corrupt(kind)

SpecStorage == Init /\ [][NextStorage]_vars

-----------------------------------------------------------------------------
(* Properties of the ledger *)

Held == DOMAIN positions
LastTrade == trade_history[Len(trade_history)]
\* the quantity and the price a sell call resolves to, given the position sold
SoldQuantity(c, pos) == IF c.quantity = None THEN pos.quantity ELSE c.quantity
SoldPrice(c, pos) == IF c.price = None THEN pos.current_price ELSE c.price

\* C1: with positive quantities and prices, starting from cash =
\* starting_cash >= 0, the cash is >= 0 in every reachable state.
C1_CashNeverNegative == RGe(cash, Zero)

\* a buy whose cost was the whole cash succeeded and left cash at 0
C1_Witness ==
    /\ call.op = "buy"
    /\ result.ok
    /\ cash = Zero
    /\ Len(trade_history) = 2

\* C2: total_value is cash plus the sum over the open positions of
\* quantity x current_price (the last marked price), and total_pnl is
\* total_value - starting_cash.
RECURSIVE MarkedValue(_)
MarkedValue(syms) ==
    IF syms = {} THEN Zero
    ELSE LET s == CHOOSE x \in syms : TRUE
         IN  RAdd(RMul(positions[s].quantity, positions[s].current_price),
                  MarkedValue(syms \ {s}))

C2_TotalValueIdentity ==
    /\ total_value = RAdd(cash, MarkedValue(Held))
    /\ total_pnl = RSub(RAdd(cash, MarkedValue(Held)), starting_cash)

\* two open positions, one of them marked away from its entry price
C2_Witness ==
    /\ Cardinality(Held) = 2
    /\ \E s \in Held : positions[s].current_price /= positions[s].entry_price
    /\ total_pnl /= Zero

\* C3: buy is rejected exactly when quantity x price > cash (a cost equal to
\* the cash succeeds); a rejected buy returns (False, message) and leaves
\* cash, the positions, trade_history and the files unchanged.
C3_BuyRejectedIffCostExceedsCash ==
    [][call'.op = "buy" =>
        LET cost == RMul(call'.quantity, call'.price)
        IN  /\ (~result'.ok) <=> RLt(cash, cost)
            /\ (~result'.ok) =>
                  /\ result' = Returned(FALSE, "Insufficient cash")
                  /\ UNCHANGED <<main_vars, starting_cash, cash, positions, trade_history,
                                 portfolio_file, history_file>>]_vars

\* a buy was rejected on a ledger that holds a position and has a snapshot
C3_Witness ==
    /\ call.op = "buy"
    /\ ~result.ok
    /\ Held /= {}
    /\ portfolio_file.kind = "state"
    /\ RGt(cash, Zero)

\* C4: sell for a symbol that is not held, or for more than is held, returns
\* (False, message) and leaves cash, the positions, trade_history and the
\* files unchanged.
C4_SellRejectedLeavesLedger ==
    [][(/\ call'.op = "sell"
        /\ \/ call'.symbol \notin Held
           \/ /\ call'.quantity /= None
              /\ RGt(call'.quantity, positions[call'.symbol].quantity))
       => /\ ~result'.ok
          /\ result'.msg \in {"No position", "Only have"}
          /\ UNCHANGED <<main_vars, starting_cash, cash, positions, trade_history,
                         portfolio_file, history_file>>]_vars

\* more than the held quantity was asked of an open position
C4_Witness ==
    /\ call.op = "sell"
    /\ call.symbol \in Held
    /\ RGt(call.quantity, positions[call.symbol].quantity)
    /\ result = Returned(FALSE, "Only have")

C6_HeldQuantitiesPositive ==
    \A s \in Held : RGt(positions[s].quantity, Zero)

\* a sell of the whole quantity succeeded and the position is gone
C6_Witness ==
    /\ call.op = "sell"
    /\ result.ok
    /\ call.symbol \notin Held
    /\ LastTrade.action = "SELL"
    /\ RGt(LastTrade.quantity, Zero)

\* C7: a successful sell of q at p credits cash by q x p, records
\* pnl = (p - entry_price) x q against the entry price at the sale, and on a
\* partial close takes q off the quantity and leaves entry_price,
\* current_price and high_since_entry as they were; an omitted quantity is
\* the whole position, an omitted price the position's current_price.
C7_SellCreditsAndRecords ==
    [][(call'.op = "sell" /\ result'.ok) =>
        LET s == call'.symbol
            pos == positions[s]
            q == SoldQuantity(call', pos)
            p == SoldPrice(call', pos)
            t == trade_history'[Len(trade_history')]
        IN  /\ cash' = RAdd(cash, RMul(q, p))
            /\ trade_history' = Append(trade_history, t)
            /\ t.action = "SELL" /\ t.symbol = s
            /\ t.quantity = q /\ t.price = p
            /\ t.pnl = RMul(RSub(p, pos.entry_price), q)
            /\ RLt(q, pos.quantity) =>
                  positions' = [positions EXCEPT ![s].quantity =
                                                    RSub(pos.quantity, q)]
            /\ q = pos.quantity =>
                  positions' = [x \in Held \ {s} |-> positions[x]]]_vars

\* a partial close, at the omitted (current) price, of a position marked
\* away from its entry price
C7_Witness ==
    /\ call.op = "sell"
    /\ result.ok
    /\ call.price = None
    /\ call.symbol \in Held
    /\ LastTrade.pnl /= Zero
    /\ LastTrade.price = positions[call.symbol].current_price

\* C8: update_prices leaves unchanged every position that the map does not
\* price (symbol absent, or value None), and in all cases leaves cash, the
\* held symbols, quantities, entry prices, trade_history and the files
\* unchanged.
C8_UpdatePricesFrame ==
    [][call'.op = "update_prices" =>
        LET pm == call'.price_map
        IN  /\ UNCHANGED <<main_vars, starting_cash, cash, trade_history, portfolio_file,
                           history_file>>
            /\ DOMAIN positions' = Held
            /\ \A s \in Held :
                  /\ positions'[s].quantity = positions[s].quantity
                  /\ positions'[s].entry_price = positions[s].entry_price
                  /\ (s \notin DOMAIN pm \/ pm[s] = None) =>
                        positions'[s] = positions[s]]_vars

\* a map with a None for one held symbol, a price for the other held symbol
\* and the snapshot on disk still carrying the old price
C8_Witness ==
    /\ call.op = "update_prices"
    /\ portfolio_file.kind = "state"
    /\ DOMAIN portfolio_file.positions = Held
    /\ \E s \in Held : s \in DOMAIN call.price_map /\ call.price_map[s] = None
    /\ \E s \in Held :
          /\ s \in DOMAIN call.price_map
          /\ call.price_map[s] = positions[s].current_price
          /\ portfolio_file.positions[s].current_price /= positions[s].current_price

\* C9: across update_prices a position's high_since_entry never decreases:
\* it becomes max(old high, new price) when the symbol is priced and stays
\* as it was otherwise.
C9_HighNeverDecreases ==
    [][call'.op = "update_prices" =>
        LET pm == call'.price_map
        IN  \A s \in Held :
              /\ s \in DOMAIN positions'
              /\ RGe(positions'[s].high_since_entry, positions[s].high_since_entry)
              /\ positions'[s].high_since_entry =
                    IF s \in DOMAIN pm /\ pm[s] /= None
                    THEN RMax(positions[s].high_since_entry, pm[s])
                    ELSE positions[s].high_since_entry]_vars

\* a held symbol was priced below its high, which stayed
C9_Witness ==
    /\ call.op = "update_prices"
    /\ \E s \in Held :
          /\ s \in DOMAIN call.price_map
          /\ call.price_map[s] = positions[s].current_price
          /\ RLt(positions[s].current_price, positions[s].high_since_entry)

\* C10: every open position has high_since_entry >= current_price, also
\* after a buy that re-averages it.
C10_HighIsHighWaterMark ==
    \A s \in Held :
        RGe(positions[s].high_since_entry, positions[s].current_price)


-----------------------------------------------------------------------------
(* Properties of the snapshot file *)

\* the fields of a position that the round trip is about
SameHolding(p, q) ==
    /\ p.quantity = q.quantity
    /\ p.entry_price = q.entry_price
    /\ p.current_price = q.current_price
    /\ p.high_since_entry = q.high_since_entry

\* the ledger in memory is the ledger before the step
LedgerReproduced ==
    /\ starting_cash' = starting_cash
    /\ cash' = cash
    /\ DOMAIN positions' = DOMAIN positions
    /\ \A s \in DOMAIN positions : SameHolding(positions'[s], positions[s])
    /\ trade_history' = trade_history

\* C11: a load that follows a save of the ledger, with the file as save left
\* it, returns the same starting_cash and cash, the same held symbols with
\* the same quantity, entry_price, current_price and high_since_entry, and
\* the same trade_history.
C11_SaveLoadRoundTrip ==
    [][(call.op = "save" /\ call'.op = "load" /\ portfolio_file.kind = "state")
       => LedgerReproduced]_vars

\* a load replayed a file that holds a position marked below its high, with
\* trades on record
C11_Witness ==
    /\ call.op = "load"
    /\ result = ReturnedNone
    /\ portfolio_file.kind = "state"
    /\ trade_history /= <<>>
    /\ \E s \in Held :
          /\ portfolio_file.positions[s] = to_dict(positions[s])
          /\ RLt(positions[s].current_price, positions[s].high_since_entry)
          /\ RLt(positions[s].entry_price, positions[s].high_since_entry)

\* C13: load on a snapshot that is absent, not parseable or short of a
\* required field returns a ledger with cash = the configured starting_cash,
\* no positions and no trades, and has written that ledger over the file
\* before it returns; load never fails on such a file.
C13_LoadSelfHeals ==
    [][(call'.op = "load" /\ portfolio_file.kind /= "state")
       => /\ result' = ReturnedNone
          /\ starting_cash' = call'.price
          /\ cash' = call'.price
          /\ positions' = EmptyMap
          /\ trade_history' = <<>>
          /\ portfolio_file' = SavedState(call'.price, call'.price, created_at',
                                          last_updated', EmptyMap, <<>>)]_vars

-----------------------------------------------------------------------------
(* The ledger as a value: what the calls of Portfolio leave behind, for the
   callers that make several calls in a row *)

CurrentLedger ==
    [starting_cash |-> starting_cash,
     cash |-> cash,
     positions |-> positions,
     trade_history |-> trade_history,
     created_at |-> created_at,
     last_updated |-> last_updated,
     portfolio_file |-> portfolio_file,
     history_file |-> history_file]

\* Portfolio.save
save_on(L, now) ==
    [L EXCEPT !.portfolio_file = SavedState(L.starting_cash, L.cash, L.created_at,
                                            L.last_updated, L.positions,
                                            L.trade_history),
              !.history_file = HistoryAfterSnapshot(L.history_file, now, L.cash,
                                                    L.positions)]

\* Portfolio.update_prices
update_prices_on(L, price_map, now) ==
    [L EXCEPT !.positions = [s \in DOMAIN L.positions |->
                                IF Priced(s, price_map)
                                THEN RepricedPosition(L.positions[s], price_map[s])
                                ELSE L.positions[s]],
              !.last_updated = now]

\* Portfolio.buy; a rejected buy leaves the ledger as it was
buy_on(L, symbol, quantity, price, asset_type, reason, now) ==
    LET cost == RMul(quantity, price)
    IN  IF InsufficientCash(cost, L.cash)
        THEN L
        ELSE LET new_cash == RSub(L.cash, cost)
                 trade == BuyTrade(now, symbol, quantity, price, cost, asset_type,
                                   reason, new_cash)
             IN  save_on([L EXCEPT !.cash = new_cash,
                                   !.positions = PositionsAfterBuy(L.positions, symbol,
                                                     quantity, price, asset_type, now),
                                   !.trade_history = Append(L.trade_history, trade),
                                   !.last_updated = now],
                         now)

\* Portfolio.sell of the whole position (quantity=None) at the given price
sell_on(L, symbol, price, reason, now) ==
    IF symbol \notin DOMAIN L.positions
    THEN L
    ELSE LET pos == L.positions[symbol]
             quantity == pos.quantity
             px == IF price = None THEN pos.current_price ELSE price
             new_cash == RAdd(L.cash, RMul(quantity, px))
             trade == SellTrade(now, symbol, quantity, px, pos, reason, new_cash)
         IN  save_on([L EXCEPT !.cash = new_cash,
                               !.trade_history = Append(L.trade_history, trade),
                               !.positions = PositionsAfterSell(L.positions, symbol,
                                                                quantity),
                               !.last_updated = now],
                     now)

-----------------------------------------------------------------------------
(* OpenClawBot: the configuration and the signals.  The indicators behind
   analyze_symbol are market data; the verdict they give for a symbol (the
   latest close, the action and its strength) is an input of each cycle. *)

\* two configurations: the default sizing with room for one position, and a
\* wider sizing with room for two
Configs ==
    {[max_position_pct |-> pct, max_positions |-> limit,
      stop_loss_pct |-> Rat(5, 100), take_profit_pct |-> Rat(10, 100),
      trailing_stop_pct |-> Rat(3, 100), min_signal_strength |-> Rat(2, 1)] :
        pct \in {Rat(15, 100), Rat(6, 10)}, limit \in {1, 2}}

\* _build_watchlist: stocks, then etfs, then crypto
Watchlist ==
    <<[symbol |-> "AAPL", type |-> "stock"],
      [symbol |-> "BTC-USD", type |-> "crypto"]>>

Quote(price, action, strength) ==
    [price |-> price, action |-> action, strength |-> strength]

\* the verdicts of the signal engine that a cycle may meet
Quotes(symbol) ==
    IF symbol = "AAPL"
    THEN {Quote(Rat(100, 1), "BUY", Rat(3, 1)),
          Quote(Rat(94, 1), "SELL", Rat(2, 1)),
          Quote(Rat(104, 1), "BUY", Rat(2, 1)),
          Quote(Rat(104, 1), "HOLD", Zero),
          Quote(Rat(104, 1), "SELL", Rat(2, 1)),
          Quote(Rat(110, 1), "HOLD", Zero)}
    ELSE {Quote(Rat(2000, 1), "BUY", Rat(3, 1)),
          Quote(Rat(2000, 1), "HOLD", Zero)}

Markets == {m \in [Symbols -> UNION {Quotes(s) : s \in Symbols}] :
               \A s \in Symbols : m[s] \in Quotes(s)}

Signal(action, symbol, strength, reasons, price, asset_type) ==
    [action |-> action,
     symbol |-> symbol,
     strength |-> strength,
     reasons |-> reasons,
     price |-> price,
     asset_type |-> asset_type]

\* the final decision of analyze_symbol, on the verdict the market gives
analyze_symbol(market, symbol, asset_type) ==
    Signal(market[symbol].action, symbol, market[symbol].strength,
           <<"technical">>, market[symbol].price, asset_type)

-----------------------------------------------------------------------------
(* OpenClawBot.check_exit_conditions *)

Hundred == Rat(100, 1)

unrealized_pnl_pct(pos) ==
    IF cost_basis(pos) = Zero
    THEN Zero
    ELSE RMul(RDiv(unrealized_pnl(pos), cost_basis(pos)), Hundred)

pnl_pct(pos) == RDiv(unrealized_pnl_pct(pos), Hundred)

StopLossFires(pnl, config) ==
    RLe(pnl, RSub(Zero, config.stop_loss_pct))

TakeProfitFires(pnl, config) ==
    RGe(pnl, config.take_profit_pct)

drawdown_from_high(pos) ==
    RDiv(RSub(pos.current_price, pos.high_since_entry), pos.high_since_entry)

\* variant: the trailing stop fires on a losing position too
TrailingStopFires_AnyPnl(pos, pnl, config) ==
    /\ RGt(pos.high_since_entry, Zero)
    /\ RLe(drawdown_from_high(pos), RSub(Zero, config.trailing_stop_pct))

TrailingStopFires(pos, pnl, config) ==
    /\ RGt(pos.high_since_entry, Zero)
    /\ RLe(drawdown_from_high(pos), RSub(Zero, config.trailing_stop_pct))
    /\ RGt(pnl, Zero)

\* the reasons of the three price rules, in the order they are appended
ForcedReasons(pos, pnl, config) ==
    (IF StopLossFires(pnl, config) THEN <<"Stop loss">> ELSE <<>>)
    \o (IF TakeProfitFires(pnl, config) THEN <<"Take profit">> ELSE <<>>)
    \o (IF TrailingStopFires(pos, pnl, config) THEN <<"Trailing stop">> ELSE <<>>)

\* variant: the signal engine is asked about every position
ExitAnalyzed_Always(forced) == TRUE

\* "if not should_exit": the signal engine is asked about the position
ExitAnalyzed(forced) == forced = <<>>

TechnicalExit(signal, config) ==
    /\ signal.action = "SELL"
    /\ RGe(signal.strength, config.min_signal_strength)

\* the strength an exit signal is given
ExitStrength == Rat(5, 1)

\* one pass of the loop: whether the signal engine was asked, and the exit
\* signal if the position is to be left
\* the computation of analyze_symbol raises for the symbol
Fails(market, symbol) == market[symbol].action = "ERROR"

ExitDecision(pos, config, market) ==
    LET forced == ForcedReasons(pos, pnl_pct(pos), config)
        analyzed == ExitAnalyzed(forced)
        signal == analyze_symbol(market, pos.symbol, pos.asset_type)
        technical == analyzed /\ TechnicalExit(signal, config)
    IN  [symbol |-> pos.symbol,
         analyzed |-> analyzed,
         raised |-> analyzed /\ Fails(market, pos.symbol),
         should_exit |-> forced /= <<>> \/ technical,
         signal |-> Signal("SELL", pos.symbol, ExitStrength,
                           forced \o (IF technical THEN signal.reasons ELSE <<>>),
                           pos.current_price, pos.asset_type)]

\* the passes of the loop over the positions, in dict order
ExitDecisions(pos_map, order, config, market) ==
    [i \in 1..Len(order) |-> ExitDecision(pos_map[order[i]], config, market)]

ShouldExit(decision) == decision.should_exit

\* the exit signals, in the order of the positions
check_exit_conditions(decisions) ==
    LET exits == SelectSeq(decisions, ShouldExit)
    IN  [i \in 1..Len(exits) |-> exits[i].signal]

-----------------------------------------------------------------------------
(* OpenClawBot.calculate_position_size *)

\* round(x, 4) for x >= 0: the nearest multiple of 1/10000, a tie to the even one
round4(x) ==
    LET g == GCD(10000, x[2])
        scaled == x[1] * (10000 \div g)
        unit == x[2] \div g
        floor == scaled \div unit
        twice_rest == 2 * (scaled % unit)
        nearest == IF twice_rest > unit THEN floor + 1
                   ELSE IF twice_rest < unit THEN floor
                   ELSE IF floor % 2 = 0 THEN floor ELSE floor + 1
    IN  Rat(nearest, 10000)

\* "Keep 10% cash buffer"
CashShare == Rat(9, 10)

\* "Min $10 order"
MinOrder == Rat(10, 1)

\* variant: the spending limit is the position limit alone
max_spend_PositionLimitOnly(L, config) ==
    RMul(total_value_of(L.cash, L.positions), config.max_position_pct)

max_spend(L, config) ==
    RMin(RMul(total_value_of(L.cash, L.positions), config.max_position_pct),
         RMul(L.cash, CashShare))

calculate_position_size(L, config, price) ==
    IF RLt(max_spend(L, config), price)
    THEN Zero
    ELSE LET quantity == round4(RDiv(max_spend(L, config), price))
         IN  IF RGe(RMul(quantity, price), MinOrder) THEN quantity ELSE Zero

-----------------------------------------------------------------------------
(* OpenClawBot.run_scan *)

\* dict order of portfolio.positions: a symbol is inserted by the BUY that
\* opens its position, and the bot sells whole positions only
RECURSIVE OpenedAt(_, _, _)
OpenedAt(history, symbol, i) ==
    IF i = 0 THEN 0
    ELSE IF history[i].symbol /= symbol THEN OpenedAt(history, symbol, i - 1)
    ELSE IF history[i].action = "SELL" THEN 0
    ELSE LET earlier == OpenedAt(history, symbol, i - 1)
         IN  IF earlier = 0 THEN i ELSE earlier

RECURSIVE InOrder(_, _, _)
InOrder(history, held, i) ==
    IF i > Len(history) THEN <<>>
    ELSE (IF /\ history[i].symbol \in held
             /\ OpenedAt(history, history[i].symbol, Len(history)) = i
          THEN <<history[i].symbol>>
          ELSE <<>>) \o InOrder(history, held, i + 1)

PositionOrder(L) == InOrder(L.trade_history, DOMAIN L.positions, 1)

\* variant: a signal is put before the signals of equal strength
RECURSIVE InsertByStrength_BeforeEquals(_, _)
InsertByStrength_BeforeEquals(sorted, signal) ==
    IF sorted = <<>> THEN <<signal>>
    ELSE IF RGt(Head(sorted).strength, signal.strength)
         THEN <<Head(sorted)>> \o InsertByStrength_BeforeEquals(Tail(sorted), signal)
         ELSE <<signal>> \o sorted

\* list.sort(key=strength, reverse=True): strongest first, equal strengths in
\* the order they had
RECURSIVE InsertByStrength(_, _)
InsertByStrength(sorted, signal) ==
    IF sorted = <<>> THEN <<signal>>
    ELSE IF RGe(Head(sorted).strength, signal.strength)
         THEN <<Head(sorted)>> \o InsertByStrength(Tail(sorted), signal)
         ELSE <<signal>> \o sorted

RECURSIVE SortedByStrength(_)
SortedByStrength(signals) ==
    IF signals = <<>> THEN <<>>
    ELSE InsertByStrength(SortedByStrength(SubSeq(signals, 1, Len(signals) - 1)),
                          signals[Len(signals)])

\* variant: the held symbols of the watchlist are scanned as well
RECURSIVE EntrySignals_HeldToo(_, _, _, _)
EntrySignals_HeldToo(L, config, market, watchlist) ==
    IF watchlist = <<>> THEN <<>>
    ELSE LET item == Head(watchlist)
             signal == analyze_symbol(market, item.symbol, item.type)
             rest == EntrySignals_HeldToo(L, config, market, Tail(watchlist))
         IN  IF Cardinality(DOMAIN L.positions) >= config.max_positions
             THEN <<>>
             ELSE IF /\ signal.action = "BUY"
                     /\ RGe(signal.strength, config.min_signal_strength)
                  THEN <<signal>> \o rest
                  ELSE rest

\* the watchlist loop: held symbols are passed over, the loop ends when the
\* ledger is full, and a BUY at or above the minimum strength is kept
RECURSIVE EntrySignals(_, _, _, _)
EntrySignals(L, config, market, watchlist) ==
    IF watchlist = <<>> THEN <<>>
    ELSE LET item == Head(watchlist)
             signal == analyze_symbol(market, item.symbol, item.type)
             rest == EntrySignals(L, config, market, Tail(watchlist))
         IN  IF item.symbol \in DOMAIN L.positions THEN rest
             ELSE IF Cardinality(DOMAIN L.positions) >= config.max_positions
                  THEN <<>>
             ELSE IF /\ signal.action = "BUY"
                     /\ RGe(signal.strength, config.min_signal_strength)
                  THEN <<signal>> \o rest
                  ELSE rest

\* all_signals of the watchlist loop: every signal analyze_symbol returned
\* there, in scan order
RECURSIVE ScannedSignals(_, _, _, _)
ScannedSignals(L, config, market, watchlist) ==
    IF watchlist = <<>> THEN <<>>
    ELSE LET item == Head(watchlist)
             rest == ScannedSignals(L, config, market, Tail(watchlist))
         IN  IF item.symbol \in DOMAIN L.positions THEN rest
             ELSE IF Cardinality(DOMAIN L.positions) >= config.max_positions
                  THEN <<>>
             ELSE IF Fails(market, item.symbol) THEN rest
             ELSE <<analyze_symbol(market, item.symbol, item.type)>> \o rest

\* the signals, and the held symbols the signal engine was asked about
ScanOutcome(decisions, entries, failed, scanned) ==
    [raised |-> \E k \in 1..Len(decisions) : decisions[k].raised,
     failed |-> failed,
     sell_signals |-> check_exit_conditions(decisions),
     buy_signals |-> SortedByStrength(entries),
     all_signals |-> check_exit_conditions(decisions) \o scanned,
     analyzed |-> {decisions[i].symbol : i \in {k \in 1..Len(decisions) :
                                                  decisions[k].analyzed}}]

\* the watchlist symbols whose analysis raised inside the try of the loop
EntryFailures(L, config, market, watchlist) ==
    IF Cardinality(DOMAIN L.positions) >= config.max_positions THEN {}
    ELSE {watchlist[i].symbol : i \in {k \in 1..Len(watchlist) :
              /\ watchlist[k].symbol \notin DOMAIN L.positions
              /\ Fails(market, watchlist[k].symbol)}}

\* an exception of check_exit_conditions leaves run_scan (raised); one of the
\* watchlist loop is caught there (failed)
run_scan(L, config, market, watchlist) ==
    ScanOutcome(ExitDecisions(L.positions, PositionOrder(L), config, market),
                EntrySignals(L, config, market, watchlist),
                EntryFailures(L, config, market, watchlist),
                ScannedSignals(L, config, market, watchlist))

-----------------------------------------------------------------------------
(* OpenClawBot.execute_signals *)

\* " | ".join(signal.reasons[:3])
JoinedReasons(reasons) ==
    SubSeq(reasons, 1, IF Len(reasons) < 3 THEN Len(reasons) ELSE 3)

Executed(action, symbol) == [action |-> action, symbol |-> symbol]

\* the ledger and the executed list, as the loops pass them on
Progress(L, executed) == [ledger |-> L, executed |-> executed]

\* "Execute sells first": every signal whose symbol is held sells the position
RECURSIVE ExecuteSells(_, _, _)
ExecuteSells(progress, sell_signals, now) ==
    IF sell_signals = <<>> THEN progress
    ELSE LET signal == Head(sell_signals)
             L == progress.ledger
         IN  IF signal.symbol \in DOMAIN L.positions
             THEN ExecuteSells(
                      Progress(sell_on(L, signal.symbol, signal.price,
                                       JoinedReasons(signal.reasons), now),
                               Append(progress.executed,
                                      Executed("SELL", signal.symbol))),
                      Tail(sell_signals), now)
             ELSE ExecuteSells(progress, Tail(sell_signals), now)

\* variant: a BUY that sizes to zero ends the loop
AfterZeroSize_Stops(signals) == <<>>

\* "continue": a BUY that sizes to zero is passed over
AfterZeroSize(signals) == Tail(signals)

\* variant: the limit on open positions is not looked at
AtMaxPositions_Never(L, config) == FALSE

\* "break": the ledger is full
AtMaxPositions(L, config) ==
    Cardinality(DOMAIN L.positions) >= config.max_positions

RECURSIVE ExecuteBuys(_, _, _, _)
ExecuteBuys(progress, buy_signals, config, now) ==
    IF buy_signals = <<>> THEN progress
    ELSE LET signal == Head(buy_signals)
             L == progress.ledger
             quantity == calculate_position_size(L, config, signal.price)
             bought == buy_on(L, signal.symbol, quantity, signal.price,
                              signal.asset_type, JoinedReasons(signal.reasons), now)
         IN  IF AtMaxPositions(L, config) THEN progress
             ELSE IF RLe(quantity, Zero)
                  THEN ExecuteBuys(progress, AfterZeroSize(buy_signals), config, now)
             ELSE IF InsufficientCash(RMul(quantity, signal.price), L.cash)
                  THEN ExecuteBuys(progress, Tail(buy_signals), config, now)
             ELSE ExecuteBuys(Progress(bought,
                                       Append(progress.executed,
                                              Executed("BUY", signal.symbol))),
                              Tail(buy_signals), config, now)

\* variant: the entries are made before the exits
execute_signals_BuysFirst(L, config, buy_signals, sell_signals, now) ==
    ExecuteSells(ExecuteBuys(Progress(L, <<>>), buy_signals, config, now),
                 sell_signals, now)

execute_signals(L, config, buy_signals, sell_signals, now) ==
    ExecuteBuys(ExecuteSells(Progress(L, <<>>), sell_signals, now),
                buy_signals, config, now)

-----------------------------------------------------------------------------
(* live_trader.run_cycle *)

MaxCycleSnapshots == 3

\* a cycle is started while the histories are short
CanCycle ==
    /\ Len(trade_history) < MaxTrades
    /\ Len(history_file) < MaxCycleSnapshots

\* variant: the prices are updated in memory only
PricesRefreshed_NoSave(L, crypto_only, market, now) ==
    LET symbols == {s \in DOMAIN L.positions :
                       crypto_only => L.positions[s].asset_type = "crypto"}
        prices == [s \in symbols |-> market[s].price]
    IN  IF symbols = {} THEN L ELSE update_prices_on(L, prices, now)

\* step 1: the held symbols (the crypto ones outside market hours) are
\* repriced and the ledger is saved
PricesRefreshed(L, crypto_only, market, now) ==
    LET symbols == {s \in DOMAIN L.positions :
                       crypto_only => L.positions[s].asset_type = "crypto"}
        prices == [s \in symbols |-> market[s].price]
    IN  IF symbols = {} THEN L ELSE save_on(update_prices_on(L, prices, now), now)

IsCrypto(item) == item.type = "crypto"

\* step 2 scans the crypto part of the watchlist outside market hours
ScannedWatchlist(crypto_only) ==
    IF crypto_only THEN SelectSeq(Watchlist, IsCrypto) ELSE Watchlist

\* variant: scan_only is not looked at
Executes_ScanOnlyIgnored(scan_only, scan) ==
    scan.buy_signals /= <<>> \/ scan.sell_signals /= <<>>

\* step 3 runs execute_signals
Executes(scan_only, scan) ==
    /\ ~scan_only
    /\ scan.buy_signals /= <<>> \/ scan.sell_signals /= <<>>

CycleCall(scan_only, crypto_only, config) ==
    [op |-> "run_cycle", scan_only |-> scan_only, crypto_only |-> crypto_only,
     config |-> config]

CycleResult(scan, executed) ==
    [ok |-> TRUE, msg |-> "cycle", failed |-> scan.failed,
     sell_signals |-> scan.sell_signals,
     buy_signals |-> scan.buy_signals, analyzed |-> scan.analyzed,
     executed |-> executed]

\* what a cycle does to the ledger and its files
RunsCycle(scan_only, crypto_only, config, market) ==
    /\ CanCycle
    /\ \E refreshed \in {PricesRefreshed(CurrentLedger, crypto_only, market, clock)} :
       \E scan \in {run_scan(refreshed, config, market, ScannedWatchlist(crypto_only))} :
       \E done \in {IF ~scan.raised /\ Executes(scan_only, scan)
                   THEN execute_signals(refreshed, config, scan.buy_signals,
                                        scan.sell_signals, clock)
                   ELSE Progress(refreshed, <<>>)} :
           /\ call' = CycleCall(scan_only, crypto_only, config)
           /\ cash' = done.ledger.cash
           /\ positions' = done.ledger.positions
           /\ trade_history' = done.ledger.trade_history
           /\ last_updated' = done.ledger.last_updated
           /\ portfolio_file' = done.ledger.portfolio_file
           /\ history_file' = done.ledger.history_file
           /\ result' = IF scan.raised THEN Raised("Exception")
                        ELSE CycleResult(scan, done.executed)
           /\ UNCHANGED <<starting_cash, created_at, clock>>

run_cycle(scan_only, crypto_only, config, market) ==
    /\ RunsCycle(scan_only, crypto_only, config, market)
    /\ UNCHANGED main_vars

\* main: the configured starting cash, and Portfolio.load with no file yet
BotStartingCash == Rat(10000, 1)

InitBot ==
    /\ starting_cash = BotStartingCash
    /\ cash = BotStartingCash
    /\ positions = EmptyMap
    /\ trade_history = <<>>
    /\ clock = 0
    /\ created_at = 0
    /\ last_updated = 0
    /\ portfolio_file = SavedState(BotStartingCash, BotStartingCash, 0, 0, EmptyMap,
                                   <<>>)
    /\ history_file = HistoryAfterSnapshot(<<>>, 0, BotStartingCash, EmptyMap)
    /\ call = Call("load", "", None, BotStartingCash, EmptyMap)
    /\ result = ReturnedNone
    /\ MainNotStarted

\* the cycles of the market hours (crypto_only is off)
NextBot ==
    \E scan_only \in BOOLEAN, config \in Configs, market \in Markets :
       run_cycle(scan_only, FALSE, config, market)

SpecBot == InitBot /\ [][NextBot]_vars

\* the scheduler's cycles on a quieter market, with buy and sell also called
\* on the ledger directly (whole positions only, as the bot sells them)
CallPrices == {Rat(100, 1), Rat(104, 1)}

CallMarkets ==
    {m \in Markets : /\ m["BTC-USD"].action = "HOLD"
                     /\ m["AAPL"].price \in CallPrices}

NextCalls ==
    \/ \E scan_only \in BOOLEAN, crypto_only \in BOOLEAN, config \in Configs,
          market \in CallMarkets :
          run_cycle(scan_only, crypto_only, config, market)
    \/ \E s \in Symbols, q \in BuyQuantities, p \in CallPrices, r \in Reasons :
          buy(s, q, p, classify_asset(s), r)
    \/ \E s \in Symbols, r \in Reasons : sell(s, None, None, r)

SpecCalls == InitBot /\ [][NextCalls]_vars

-----------------------------------------------------------------------------
(* Properties of the cycle *)

\* the snapshot file is the state dict of the ledger in memory
FileHoldsLedger ==
    portfolio_file = SavedState(starting_cash, cash, created_at, last_updated,
                                positions, trade_history)

\* C12: when a successful buy or sell returns, and when a scheduler cycle
\* ends, the snapshot file holds the whole ledger as it is in memory: its
\* cash, its positions and its trade_history.
C12_SnapshotFollowsLedger ==
    [][(\/ call'.op \in {"buy", "sell"} /\ result'.ok
        \/ call'.op = "run_cycle")
       => FileHoldsLedger']_vars

\* a cycle repriced a held position and made no trade, and the file has the
\* new price
C12_Witness ==
    /\ call.op = "run_cycle"
    /\ result.executed = <<>>
    /\ trade_history /= <<>>
    /\ \E s \in Held :
          /\ positions[s].current_price /= positions[s].entry_price
          /\ portfolio_file.positions[s].current_price = positions[s].current_price

\* what a cycle step shows of its exit check: the exit signal of a symbol
\* held before the step, and the price, high and gain it was checked at
CycleStep == call'.op = "run_cycle"
\* the exit signal of a symbol among the sell signals of a scan
HasExit(signals, s) == \E i \in 1..Len(signals) : signals[i].symbol = s
ExitOf(signals, s) ==
    signals[CHOOSE i \in 1..Len(signals) : signals[i].symbol = s]
ReasonSet(signal) == {signal.reasons[i] : i \in 1..Len(signal.reasons)}
ExitReasons(signals, s) ==
    IF HasExit(signals, s) THEN ReasonSet(ExitOf(signals, s)) ELSE {}
\* the price at which the scan saw a position that was held when the cycle
\* began: the price of its exit signal, or the price it has when the cycle
\* ends
ScanPrice(signals, after, s) ==
    IF HasExit(signals, s) THEN ExitOf(signals, s).price
    ELSE after[s].current_price
ScanHigh(pos, price) == RMax(pos.high_since_entry, price)
ScanGain(pos, price) == RDiv(RSub(price, pos.entry_price), pos.entry_price)
ScanDrawdown(pos, price) ==
    RDiv(RSub(price, ScanHigh(pos, price)), ScanHigh(pos, price))
StopLossDue(pos, price, config) ==
    RLe(ScanGain(pos, price), RSub(Zero, config.stop_loss_pct))
TakeProfitDue(pos, price, config) ==
    RGe(ScanGain(pos, price), config.take_profit_pct)
TrailingStopDue(pos, price, config) ==
    /\ RLe(ScanDrawdown(pos, price), RSub(Zero, config.trailing_stop_pct))
    /\ RGt(price, pos.entry_price)

AskedOnlyIfNoPriceRule(pos, price, config, reasons, asked) ==
    /\ asked => ~(\/ StopLossDue(pos, price, config)
                  \/ TakeProfitDue(pos, price, config)
                  \/ TrailingStopDue(pos, price, config))
    /\ StopLossDue(pos, price, config) =>
          /\ "Stop loss" \in reasons
          /\ "technical" \notin reasons
          /\ ~asked
EngineAskedOnlyIfNoPriceRule(before, after, outcome, config) ==
    \A s \in DOMAIN before :
       /\ AskedOnlyIfNoPriceRule(before[s],
                                 ScanPrice(outcome.sell_signals, after, s),
                                 config,
                                 ExitReasons(outcome.sell_signals, s),
                                 s \in outcome.analyzed)
       /\ HasExit(outcome.sell_signals, s) =>
             ExitOf(outcome.sell_signals, s).action = "SELL"

\* C14: in the exit check of a cycle the signal engine is asked about a held
\* position only if none of stop loss, take profit and trailing stop fired
\* for it; a position at or below -stop_loss_pct (entry 100, price 94, stop
\* 0.05) gets a SELL with the stop-loss reason and without the engine's.
C14_EngineAskedOnlyIfNoPriceRule ==
    [][CycleStep =>
        \E outcome \in {result'} : \E after \in {positions'} :
           \E config \in {call'.config} :
              EngineAskedOnlyIfNoPriceRule(positions, after, outcome, config)]_vars

\* a position entered at 100 was sold at 94 on the stop-loss reason alone,
\* and the engine was not asked about it
C14_Witness ==
    /\ call.op = "run_cycle"
    /\ call.config.stop_loss_pct = Rat(5, 100)
    /\ "AAPL" \notin result.analyzed
    /\ \E i \in 1..Len(result.sell_signals) :
          /\ result.sell_signals[i].symbol = "AAPL"
          /\ result.sell_signals[i].price = Rat(94, 1)
          /\ result.sell_signals[i].reasons = <<"Stop loss">>
    /\ trade_history /= <<>>
    /\ LastTrade.action = "SELL"
    /\ LastTrade.symbol = "AAPL"
    /\ LastTrade.price = Rat(94, 1)
    /\ LastTrade.pnl_pct = Rat(-6, 1)

TrailingStopExactlyInProfit(pos, price, config, reasons) ==
    /\ TrailingStopDue(pos, price, config) <=> "Trailing stop" \in reasons
    /\ RLe(price, pos.entry_price) => "Trailing stop" \notin reasons
TrailingStopOnlyInProfit(before, after, outcome, config) ==
    \A s \in DOMAIN before :
       TrailingStopExactlyInProfit(before[s],
                                   ScanPrice(outcome.sell_signals, after, s),
                                   config,
                                   ExitReasons(outcome.sell_signals, s))

\* C15: the trailing stop forces the exit of a held position exactly when
\* its drawdown from the high is at or below -trailing_stop_pct and it is
\* in profit; a position priced at or below its entry price is never
\* exited by the trailing stop, whatever its drawdown.
C15_TrailingStopOnlyInProfit ==
    [][CycleStep =>
        \E outcome \in {result'} : \E after \in {positions'} :
           \E config \in {call'.config} :
              TrailingStopOnlyInProfit(positions, after, outcome, config)]_vars

\* a position entered at 100 that had been as high as 110 was sold at 104
\* by the trailing stop alone
C15_Witness ==
    /\ call.op = "run_cycle"
    /\ call.config.trailing_stop_pct = Rat(3, 100)
    /\ \E i \in 1..Len(result.sell_signals) :
          /\ result.sell_signals[i].symbol = "AAPL"
          /\ result.sell_signals[i].price = Rat(104, 1)
          /\ result.sell_signals[i].reasons = <<"Trailing stop">>
    /\ trade_history /= <<>>
    /\ LastTrade.action = "SELL"
    /\ LastTrade.symbol = "AAPL"
    /\ LastTrade.price = Rat(104, 1)
    /\ LastTrade.pnl_pct = Rat(4, 1)

\* the cash held just before a trade
CashBefore(trade) == RAdd(trade.cash_after, trade.total)
\* the spending limit of a buy of a cycle that ended with the ledger L: the
\* cycle sells and buys at the refreshed prices, so the total value stays
\* what it is when the cycle ends
SpendLimit(trade, L, config) ==
    RMin(RMul(total_value_of(L.cash, L.positions), config.max_position_pct),
         RMul(CashBefore(trade), CashShare))
WithinLimit(trade, L, config) ==
    /\ RLe(trade.total, SpendLimit(trade, L, config))
    /\ RGe(trade.cash_after, RMul(CashBefore(trade), RSub(One, CashShare)))
\* the buys a cycle appended after the first `before` trades
BuysWithinLimit(L, before, config) ==
    \A i \in (before + 1)..Len(L.trade_history) :
       L.trade_history[i].action = "BUY" =>
          WithinLimit(L.trade_history[i], L, config)

\* C16: the notional of every buy a cycle makes is at most
\* min(total_value * max_position_pct, cash * 0.9), and the buy leaves at
\* least 10% of the cash held just before it.
C16_CashReserveIsHardFloor ==
    [][CycleStep =>
        \E after \in {CurrentLedger'} :
           BuysWithinLimit(after, Len(trade_history), call'.config)]_vars


\* the prices the markets quote
QuotedPrices == {q.price : q \in UNION {Quotes(s) : s \in Symbols}}
\* the size the sizing rule states: the spending limit over the price,
\* rounded, and zero only if its notional is below the minimum order
StatedQuantity(L, config, price) == round4(RDiv(max_spend(L, config), price))
StatedSize(L, config, price) ==
    IF RGe(RMul(StatedQuantity(L, config, price), price), MinOrder)
    THEN StatedQuantity(L, config, price)
    ELSE Zero

\* C17: for every ledger, configuration and price calculate_position_size
\* returns min(total_value * max_position_pct, cash * 0.9) / price rounded
\* to four decimals when the notional of that quantity is at least 10, and
\* zero only when it is below 10.
C17_ZeroOnlyBelowMinimum ==
    \A config \in Configs, price \in QuotedPrices :
       calculate_position_size(CurrentLedger, config, price)
          = StatedSize(CurrentLedger, config, price)

\* among the trades appended after the first `before`, no buy precedes a sell
SellsBeforeBuys(history, before) ==
    \A i, j \in (before + 1)..Len(history) :
       i < j => ~(history[i].action = "BUY" /\ history[j].action = "SELL")
\* every sell signal on a held symbol became a trade
ExitsExecuted(history, before, held, sell_signals) ==
    \A k \in 1..Len(sell_signals) :
       sell_signals[k].symbol \in held =>
          \E i \in (before + 1)..Len(history) :
             /\ history[i].action = "SELL"
             /\ history[i].symbol = sell_signals[k].symbol
\* the cash the ledger held when trade i was made
CashLeftBefore(history, i, before, cash_at_start) ==
    IF i = before + 1 THEN cash_at_start ELSE history[i - 1].cash_after
\* every buy has the size computed from the cash left by the trades before it
SizedFromCashLeft(L, before, cash_at_start, config) ==
    \A i \in (before + 1)..Len(L.trade_history) :
       L.trade_history[i].action = "BUY" =>
          L.trade_history[i].quantity
             = round4(RDiv(RMin(RMul(total_value_of(L.cash, L.positions),
                                     config.max_position_pct),
                                RMul(CashLeftBefore(L.trade_history, i, before,
                                                    cash_at_start),
                                     CashShare)),
                           L.trade_history[i].price))

\* C18: in a cycle that executes, every sell signal on a held symbol is
\* committed to the ledger before the first buy, each buy is sized from the
\* cash left by the exits, and each later buy from the cash left by the
\* earlier buys of the cycle.
C18_ExitsBeforeEntries ==
    [][(CycleStep /\ ~call'.scan_only) =>
        \E after \in {CurrentLedger'} :
           /\ SellsBeforeBuys(after.trade_history, Len(trade_history))
           /\ ExitsExecuted(after.trade_history, Len(trade_history), Held,
                            result'.sell_signals)
           /\ SizedFromCashLeft(after, Len(trade_history), cash,
                                call'.config)]_vars

\* a cycle sold AAPL at the stop loss and then bought BTC-USD with a size of
\* 2.892 that only the cash after the exit allows (1.8 before it)
C18_Witness ==
    /\ call.op = "run_cycle"
    /\ ~call.scan_only
    /\ result.executed = <<Executed("SELL", "AAPL"), Executed("BUY", "BTC-USD")>>
    /\ Len(trade_history) >= 3
    /\ trade_history[Len(trade_history) - 1].action = "SELL"
    /\ trade_history[Len(trade_history) - 1].cash_after = Rat(9640, 1)
    /\ LastTrade.action = "BUY"
    /\ LastTrade.price = Rat(2000, 1)
    /\ LastTrade.quantity = Rat(2892, 1000)

\* the trades after the first `before` that bought, and whether a buy
\* signal is among them
BuyTrades(history, before) ==
    {i \in (before + 1)..Len(history) : history[i].action = "BUY"}
BuyTradeOf(history, before, signal) ==
    {i \in BuyTrades(history, before) : history[i].symbol = signal.symbol}
Bought(history, before, signal) == BuyTradeOf(history, before, signal) /= {}
\* the open positions when trade i was made, and when the k-th buy signal
\* was reached: the buys made since then each opened one of the positions
\* the ledger holds in the end
OpenBeforeTrade(L, before, i) ==
    Cardinality(DOMAIN L.positions)
       - Cardinality({j \in BuyTrades(L.trade_history, before) : j >= i})
OpenWhenReached(L, before, signals, k) ==
    Cardinality(DOMAIN L.positions)
       - Cardinality({m \in k..Len(signals) :
                         Bought(L.trade_history, before, signals[m])})
\* no position is opened at the limit
OpenedBelowLimit(L, before, config) ==
    \A i \in BuyTrades(L.trade_history, before) :
       OpenBeforeTrade(L, before, i) < config.max_positions
\* the buys are made in the order of the ranked list
BoughtInOrder(history, before, signals) ==
    \A k, m \in 1..Len(signals) :
       k < m =>
          \A i \in BuyTradeOf(history, before, signals[k]),
             j \in BuyTradeOf(history, before, signals[m]) : i < j
\* a signal that was not bought was reached at the limit, or has no size
\* (the cash only falls during the buys, so a signal without a size when it
\* was reached has none in the end)
PassedOverOnlyForCause(L, before, signals, config) ==
    \A k \in 1..Len(signals) :
       ~Bought(L.trade_history, before, signals[k]) =>
          \/ OpenWhenReached(L, before, signals, k) >= config.max_positions
          \/ calculate_position_size(L, config, signals[k].price) = Zero
\* after a signal reached at the limit nothing is bought
StopsAtLimit(L, before, signals, config) ==
    \A k, m \in 1..Len(signals) :
       (/\ k < m
        /\ OpenWhenReached(L, before, signals, k) >= config.max_positions)
          => ~Bought(L.trade_history, before, signals[m])
RespectsLimit(L, before, open_at_start, signals, config) ==
    /\ OpenedBelowLimit(L, before, config)
    /\ BoughtInOrder(L.trade_history, before, signals)
    /\ PassedOverOnlyForCause(L, before, signals, config)
    /\ StopsAtLimit(L, before, signals, config)
    /\ open_at_start <= config.max_positions =>
          Cardinality(DOMAIN L.positions) <= config.max_positions

\* C19: a cycle that executes opens no position while the ledger holds
\* max_positions or more; it takes the ranked buy signals in order, passes
\* over one that sizes to zero and goes on, and stops at the first one
\* reached with the ledger at the limit; a ledger within the limit when the
\* cycle begins is within it when the cycle ends.
C19_MaxPositionsRespected ==
    [][(CycleStep /\ ~call'.scan_only) =>
        \E after \in {CurrentLedger'} : \E outcome \in {result'} :
           \E config \in {call'.config} :
              RespectsLimit(after, Len(trade_history), Cardinality(Held),
                            outcome.buy_signals, config)]_vars

\* with max_positions 1 and cash for both, AAPL was bought and BTC-USD,
\* ranked after it, was not: the loop stopped at the limit
C19_Witness ==
    /\ call.op = "run_cycle"
    /\ ~call.scan_only
    /\ call.config.max_positions = 1
    /\ call.config.max_position_pct = Rat(6, 10)
    /\ Len(result.buy_signals) = 2
    /\ result.buy_signals[2].symbol = "BTC-USD"
    /\ result.executed = <<Executed("BUY", "AAPL")>>
    /\ Held = {"AAPL"}
    /\ calculate_position_size(CurrentLedger, call.config,
                               result.buy_signals[2].price) /= Zero

\* the other case: BTC-USD, ranked first, sized to zero and was passed over,
\* and AAPL, ranked after it, was bought
C19_ZeroSizePassedOver ==
    /\ call.op = "run_cycle"
    /\ ~call.scan_only
    /\ call.config.max_position_pct = Rat(15, 100)
    /\ Len(result.buy_signals) = 2
    /\ result.buy_signals[1].symbol = "BTC-USD"
    /\ result.executed = <<Executed("BUY", "AAPL")>>
    /\ Held = {"AAPL"}


\* the quantities and entry prices of the positions of a ledger
Stakes(pos_map) ==
    [s \in DOMAIN pos_map |->
        [quantity |-> pos_map[s].quantity,
         entry_price |-> pos_map[s].entry_price]]

\* C20: a scan-only cycle refreshes, checks exits, scans and ranks but makes
\* no trade: the cash, the held symbols, every position's quantity and entry
\* price and the trade history are after the cycle what they were before it,
\* whatever the signals.
C20_ScanOnlyTradesNothing ==
    [][(CycleStep /\ call'.scan_only) =>
          /\ cash' = cash
          /\ Stakes(positions') = Stakes(positions)
          /\ trade_history' = trade_history
          /\ result'.executed = <<>>]_vars

\* a scan-only cycle produced an exit signal for the held AAPL and a buy
\* signal, repriced the position, and traded nothing
C20_Witness ==
    /\ call.op = "run_cycle"
    /\ call.scan_only
    /\ result.sell_signals /= <<>>
    /\ result.buy_signals /= <<>>
    /\ result.executed = <<>>
    /\ "AAPL" \in Held
    /\ positions["AAPL"].current_price /= positions["AAPL"].entry_price
    /\ LastTrade.action = "BUY"

-----------------------------------------------------------------------------
(* OpenClawBot.analyze_symbol: from the indicators to the signal *)

\* strategy.get defaults
rsi_oversold == Rat(30, 1)
rsi_overbought == Rat(70, 1)
volume_spike_multiplier == Rat(3, 2)

\* "v is not None and not np.isnan(v)"
Present(v) == v /= None

\* what one indicator family adds to the two sides
Adds(buy_strength, buy_reasons, sell_strength, sell_reasons) ==
    [buy_strength |-> buy_strength, buy_reasons |-> buy_reasons,
     sell_strength |-> sell_strength, sell_reasons |-> sell_reasons]
AddsNothing == Adds(Zero, <<>>, Zero, <<>>)
AddsBuy(strength, reason) == Adds(strength, <<reason>>, Zero, <<>>)
AddsSell(strength, reason) == Adds(Zero, <<>>, strength, <<reason>>)
Together(a, b) ==
    Adds(RAdd(a.buy_strength, b.buy_strength), a.buy_reasons \o b.buy_reasons,
         RAdd(a.sell_strength, b.sell_strength), a.sell_reasons \o b.sell_reasons)

\* variant: an RSI below the oversold level counts as approaching oversold only
RsiAdds_WeakOnly(latest) ==
    IF ~Present(latest.RSI) THEN AddsNothing
    ELSE IF RLt(latest.RSI, Rat(40, 1))
         THEN AddsBuy(Rat(1, 2), "RSI approaching oversold")
    ELSE IF RGt(latest.RSI, Rat(65, 1))
         THEN AddsSell(Rat(1, 2), "RSI approaching overbought")
    ELSE AddsNothing

\* "RSI Analysis"
RsiAdds(latest) ==
    IF ~Present(latest.RSI) THEN AddsNothing
    ELSE IF RLt(latest.RSI, rsi_oversold)
         THEN AddsBuy(Rat(3, 2), "RSI oversold")
    ELSE IF RLt(latest.RSI, Rat(40, 1))
         THEN AddsBuy(Rat(1, 2), "RSI approaching oversold")
    ELSE IF RGt(latest.RSI, rsi_overbought)
         THEN AddsSell(Rat(3, 2), "RSI overbought")
    ELSE IF RGt(latest.RSI, Rat(65, 1))
         THEN AddsSell(Rat(1, 2), "RSI approaching overbought")
    ELSE AddsNothing

\* "MACD Analysis": the bullish and the bearish test are two statements
MacdBullish(hist, prev_hist) ==
    IF RGt(hist, Zero) /\ RLe(prev_hist, Zero)
    THEN AddsBuy(Rat(3, 2), "MACD bullish crossover")
    ELSE IF RGt(hist, Zero) /\ RGt(hist, prev_hist)
    THEN AddsBuy(Rat(1, 2), "MACD momentum increasing")
    ELSE AddsNothing
MacdBearish(hist, prev_hist) ==
    IF RLt(hist, Zero) /\ RGe(prev_hist, Zero)
    THEN AddsSell(Rat(3, 2), "MACD bearish crossover")
    ELSE IF RLt(hist, Zero) /\ RLt(hist, prev_hist)
    THEN AddsSell(Rat(1, 2), "MACD momentum decreasing")
    ELSE AddsNothing
MacdAdds(latest, prev) ==
    IF /\ Present(latest.MACD) /\ Present(latest.MACD_Signal)
       /\ Present(latest.MACD_Hist) /\ Present(prev.MACD_Hist)
    THEN Together(MacdBullish(latest.MACD_Hist, prev.MACD_Hist),
                  MacdBearish(latest.MACD_Hist, prev.MACD_Hist))
    ELSE AddsNothing

\* "Bollinger Band Analysis"
BollingerAdds(latest) ==
    IF ~Present(latest.BB_Pct) THEN AddsNothing
    ELSE IF RLt(latest.BB_Pct, Rat(5, 100))
         THEN AddsBuy(One, "Price at lower Bollinger Band")
    ELSE IF RLt(latest.BB_Pct, Rat(2, 10))
         THEN AddsBuy(Rat(1, 2), "Price near lower Bollinger Band")
    ELSE IF RGt(latest.BB_Pct, Rat(95, 100))
         THEN AddsSell(One, "Price at upper Bollinger Band")
    ELSE IF RGt(latest.BB_Pct, Rat(8, 10))
         THEN AddsSell(Rat(1, 2), "Price near upper Bollinger Band")
    ELSE AddsNothing

\* "Volume Analysis": a spike confirms the direction of the day
VolumeAdds(latest, prev) ==
    IF Present(latest.Vol_Ratio) /\ RGt(latest.Vol_Ratio, volume_spike_multiplier)
    THEN IF RGt(RDiv(RSub(latest.Close, prev.Close), prev.Close), Zero)
         THEN AddsBuy(Rat(3, 4), "Volume spike on up move")
         ELSE AddsSell(Rat(3, 4), "Volume spike on down move")
    ELSE AddsNothing

\* "Moving Average Analysis": the trend test and the EMA9 crossover test are
\* two statements
TrendAdds(latest) ==
    IF RGt(latest.Close, latest.SMA_10) /\ RGt(latest.SMA_10, latest.SMA_20)
    THEN AddsBuy(Rat(1, 2), "Price above rising MAs")
    ELSE IF RLt(latest.Close, latest.SMA_10) /\ RLt(latest.SMA_10, latest.SMA_20)
    THEN AddsSell(Rat(1, 2), "Price below falling MAs")
    ELSE AddsNothing
CrossoverAdds(latest, prev) ==
    IF ~(Present(prev.EMA_9) /\ Present(prev.SMA_20)) THEN AddsNothing
    ELSE IF RGt(latest.EMA_9, latest.SMA_20) /\ RLe(prev.EMA_9, prev.SMA_20)
    THEN AddsBuy(Rat(3, 4), "EMA9 crossed above SMA20")
    ELSE IF RLt(latest.EMA_9, latest.SMA_20) /\ RGe(prev.EMA_9, prev.SMA_20)
    THEN AddsSell(Rat(3, 4), "EMA9 crossed below SMA20")
    ELSE AddsNothing
MovingAverageAdds(latest, prev) ==
    IF Present(latest.SMA_10) /\ Present(latest.SMA_20) /\ Present(latest.EMA_9)
    THEN Together(TrendAdds(latest), CrossoverAdds(latest, prev))
    ELSE AddsNothing

\* "Momentum (Rate of Change)"
MomentumAdds(latest) ==
    IF ~Present(latest.ROC_5) THEN AddsNothing
    ELSE IF /\ RGt(latest.ROC_5, Rat(3, 1))
            /\ Present(latest.ROC_10) /\ RGt(latest.ROC_10, Zero)
         THEN AddsBuy(Rat(1, 2), "Strong short-term momentum")
    ELSE IF /\ RLt(latest.ROC_5, Rat(-3, 1))
            /\ Present(latest.ROC_10) /\ RLt(latest.ROC_10, Zero)
         THEN AddsSell(Rat(1, 2), "Negative momentum")
    ELSE AddsNothing

\* the six families, in the order the code runs them
Families == <<"rsi", "macd", "bollinger", "volume", "moving_average", "momentum">>
FamilyAdds(family, latest, prev) ==
    CASE family = "rsi" -> RsiAdds(latest)
      [] family = "macd" -> MacdAdds(latest, prev)
      [] family = "bollinger" -> BollingerAdds(latest)
      [] family = "volume" -> VolumeAdds(latest, prev)
      [] family = "moving_average" -> MovingAverageAdds(latest, prev)
      [] family = "momentum" -> MomentumAdds(latest)

RECURSIVE Accumulated(_, _, _)
Accumulated(n, latest, prev) ==
    IF n = 0 THEN AddsNothing
    ELSE Together(Accumulated(n - 1, latest, prev),
                  FamilyAdds(Families[n], latest, prev))

\* the reasons of a HOLD: one line for each side that has reasons
HoldReasons(sides) ==
    IF sides.buy_reasons = <<>> /\ sides.sell_reasons = <<>>
    THEN <<"No significant signals">>
    ELSE (IF sides.buy_reasons /= <<>> THEN <<"Bullish">> ELSE <<>>)
         \o (IF sides.sell_reasons /= <<>> THEN <<"Bearish">> ELSE <<>>)

\* variant: a net strength equal to the threshold is not enough
Decision_Strict(sides, min_signal_strength, symbol, price, asset_type) ==
    IF RGt(RSub(sides.buy_strength, sides.sell_strength), min_signal_strength)
    THEN Signal("BUY", symbol, sides.buy_strength, sides.buy_reasons, price,
                asset_type)
    ELSE IF RLt(RSub(sides.buy_strength, sides.sell_strength),
                RSub(Zero, min_signal_strength))
    THEN Signal("SELL", symbol, sides.sell_strength, sides.sell_reasons, price,
                asset_type)
    ELSE Signal("HOLD", symbol,
                RAbs(RSub(sides.buy_strength, sides.sell_strength)),
                HoldReasons(sides), price, asset_type)

\* "Generate final signal"
Decision(sides, min_signal_strength, symbol, price, asset_type) ==
    IF RGe(RSub(sides.buy_strength, sides.sell_strength), min_signal_strength)
    THEN Signal("BUY", symbol, sides.buy_strength, sides.buy_reasons, price,
                asset_type)
    ELSE IF RLe(RSub(sides.buy_strength, sides.sell_strength),
                RSub(Zero, min_signal_strength))
    THEN Signal("SELL", symbol, sides.sell_strength, sides.sell_reasons, price,
                asset_type)
    ELSE Signal("HOLD", symbol,
                RAbs(RSub(sides.buy_strength, sides.sell_strength)),
                HoldReasons(sides), price, asset_type)

\* get_technical_data gave nothing, or fewer than 30 rows
NoData == [rows |-> 0]
Insufficient(data) == data.rows < 30

\* analyze_symbol on the technical data of the symbol
analyze_data(data, min_signal_strength, symbol, asset_type) ==
    IF Insufficient(data)
    THEN Signal("HOLD", symbol, Zero, <<"Insufficient data">>, None, asset_type)
    ELSE Decision(Accumulated(Len(Families), data.latest, data.prev),
                  min_signal_strength, symbol, data.latest.Close, asset_type)

\* the text after "Bullish: " and "Bearish: " is the joined reasons of the side;
\* HoldReasons keeps the heading of each line

-----------------------------------------------------------------------------
(* The signal engine on bounded technical data *)

\* the last two rows of the frame: Close is 100, the SMA_20 of the previous
\* row is 100
OscillatorValues == {None, Rat(25, 1), Rat(35, 1), Rat(68, 1), Rat(75, 1)}
HistogramValues ==
    {[MACD |-> None, MACD_Hist |-> None, prev_MACD_Hist |-> None],
     [MACD |-> One, MACD_Hist |-> Rat(2, 10), prev_MACD_Hist |-> Rat(-1, 10)],
     [MACD |-> One, MACD_Hist |-> Rat(2, 10), prev_MACD_Hist |-> Rat(1, 10)],
     [MACD |-> One, MACD_Hist |-> Rat(-2, 10), prev_MACD_Hist |-> Rat(1, 10)],
     [MACD |-> One, MACD_Hist |-> Rat(-2, 10), prev_MACD_Hist |-> Rat(-1, 10)]}
BandValues == {None, Rat(3, 100), Rat(1, 10), Rat(9, 10), Rat(97, 100)}
VolumeValues ==
    {[Vol_Ratio |-> None, prev_Close |-> Rat(99, 1)],
     [Vol_Ratio |-> Rat(2, 1), prev_Close |-> Rat(99, 1)],
     [Vol_Ratio |-> Rat(2, 1), prev_Close |-> Rat(101, 1)]}
AverageValues ==
    {[SMA_10 |-> None, SMA_20 |-> None, EMA_9 |-> None, prev_EMA_9 |-> None]}
    \cup {[SMA_10 |-> trend[1], SMA_20 |-> trend[2],
           EMA_9 |-> cross[1], prev_EMA_9 |-> cross[2]] :
            trend \in {<<Rat(95, 1), Rat(90, 1)>>, <<Rat(105, 1), Rat(110, 1)>>,
                       <<Rat(105, 1), Rat(90, 1)>>},
            cross \in {<<Rat(115, 1), Rat(99, 1)>>, <<Rat(85, 1), Rat(101, 1)>>,
                       <<Rat(115, 1), Rat(101, 1)>>}}
MomentumValues ==
    {[ROC_5 |-> None, ROC_10 |-> None],
     [ROC_5 |-> Rat(4, 1), ROC_10 |-> One],
     [ROC_5 |-> Rat(4, 1), ROC_10 |-> Rat(-1, 1)],
     [ROC_5 |-> Rat(-4, 1), ROC_10 |-> Rat(-1, 1)]}

TechnicalData(rsi, macd, bb, vol, ma, roc) ==
    [rows |-> 60,
     latest |-> [Close |-> Rat(100, 1), RSI |-> rsi, MACD |-> macd.MACD,
                 MACD_Signal |-> macd.MACD, MACD_Hist |-> macd.MACD_Hist,
                 BB_Pct |-> bb, Vol_Ratio |-> vol.Vol_Ratio,
                 SMA_10 |-> ma.SMA_10, SMA_20 |-> ma.SMA_20, EMA_9 |-> ma.EMA_9,
                 ROC_5 |-> roc.ROC_5, ROC_10 |-> roc.ROC_10],
     prev |-> [Close |-> vol.prev_Close, MACD_Hist |-> macd.prev_MACD_Hist,
               EMA_9 |-> ma.prev_EMA_9,
               SMA_20 |-> IF ma.prev_EMA_9 = None THEN None ELSE Rat(100, 1)]]

Frames ==
    {NoData}
    \cup {TechnicalData(rsi, macd, bb, vol, ma, roc) :
            rsi \in OscillatorValues, macd \in HistogramValues,
            bb \in BandValues, vol \in VolumeValues, ma \in AverageValues,
            roc \in MomentumValues}

\* strategy["min_signal_strength"]: the default, and values a strategy file can
\* hold
SignalThresholds == {Rat(2, 1), Zero}

\* the frame get_technical_data returns and the strategy of the bot
InitSignals ==
    /\ starting_cash = BotStartingCash
    /\ cash = BotStartingCash
    /\ positions = EmptyMap
    /\ trade_history = <<>>
    /\ clock = 0
    /\ created_at = 0
    /\ last_updated = 0
    /\ portfolio_file = SavedState(BotStartingCash, BotStartingCash, 0, 0, EmptyMap,
                                   <<>>)
    /\ history_file = HistoryAfterSnapshot(<<>>, 0, BotStartingCash, EmptyMap)
    /\ call \in {[op |-> "get_technical_data", data |-> data,
                  min_signal_strength |-> threshold, symbol |-> "AAPL",
                  asset_type |-> "stock"] :
                   data \in Frames, threshold \in SignalThresholds}
    /\ result = ReturnedNone
    /\ MainNotStarted

\* OpenClawBot.analyze_symbol(symbol, asset_type) on that frame
Analyze ==
    /\ call.op = "get_technical_data"
    /\ call' = [call EXCEPT !.op = "analyze_symbol"]
    /\ result' = analyze_data(call.data, call.min_signal_strength, call.symbol,
                              call.asset_type)
    /\ UNCHANGED <<main_vars, starting_cash, cash, positions, trade_history, created_at,
                   last_updated, portfolio_file, history_file, clock>>

NextSignals == Analyze
SpecSignals == InitSignals /\ [][NextSignals]_vars

\* the evaluations that reached the final decision
Analyzed == call.op = "analyze_symbol"
Decided == Analyzed /\ ~Insufficient(call.data)
SidesOf(data) == Accumulated(Len(Families), data.latest, data.prev)
NetStrength(sides) == RSub(sides.buy_strength, sides.sell_strength)

\* C21: the final decision of analyze_symbol is a function of buy_strength,
\* sell_strength and min_signal_strength: with net = buy_strength -
\* sell_strength it returns BUY with the buy strength and the buy reasons if
\* net >= min_signal_strength, SELL with the sell strength and the sell reasons
\* if net <= -min_signal_strength, and otherwise HOLD with strength |net|; one
\* Signal is returned and its strength is never negative.  The three cases are
\* read in the order given: BUY is tested first.
DecidedAsStated(signal, sides, min_signal_strength) ==
    IF RGe(NetStrength(sides), min_signal_strength)
    THEN /\ signal.action = "BUY"
         /\ signal.strength = sides.buy_strength
         /\ signal.reasons = sides.buy_reasons
    ELSE IF RLe(NetStrength(sides), RSub(Zero, min_signal_strength))
    THEN /\ signal.action = "SELL"
         /\ signal.strength = sides.sell_strength
         /\ signal.reasons = sides.sell_reasons
    ELSE /\ signal.action = "HOLD"
         /\ signal.strength = RAbs(NetStrength(sides))
C21_DecisionFunction ==
    Analyzed =>
        /\ result.action \in {"BUY", "SELL", "HOLD"}
        /\ RGe(result.strength, Zero)
        /\ Decided => DecidedAsStated(result, SidesOf(call.data),
                                      call.min_signal_strength)
\* a net strength equal to the threshold: RSI oversold and a price near the
\* lower band give 3/2 + 1/2 against the default threshold 2
C21_Witness ==
    /\ Decided
    /\ call.min_signal_strength = Rat(2, 1)
    /\ NetStrength(SidesOf(call.data)) = Rat(2, 1)
    /\ SidesOf(call.data).sell_strength /= Zero
    /\ result.action = "BUY"

\* C22: numeric ties resolve to HOLD: for every configurable value of
\* min_signal_strength, an evaluation in which buy_strength equals
\* sell_strength (no indicator fired included) returns HOLD, never BUY or SELL.
Tied(sides) == sides.buy_strength = sides.sell_strength
C22_TiesResolveToHold ==
    (Decided /\ Tied(SidesOf(call.data))) => result.action = "HOLD"

\* C23: in one evaluation no indicator family adds weight to both
\* buy_strength and sell_strength, whatever the indicator values of the latest
\* and the previous row.
AddsToBothSides(adds) == adds.buy_strength /= Zero /\ adds.sell_strength /= Zero
C23_NoFamilyOnBothSides ==
    Decided =>
        \A n \in 1..Len(Families) :
            ~AddsToBothSides(FamilyAdds(Families[n], call.data.latest,
                                        call.data.prev))

\* C24: with the default thresholds (rsi_oversold 30, min_signal_strength 2),
\* RSI = 25, MACD_Hist going from -0.1 to +0.2, BB_Pct = 0.03 and no other
\* family firing, analyze_symbol returns BUY with strength 1.5 + 1.5 + 1.0 = 4.0
\* and exactly three reasons: oversold, bullish crossover, lower band.
ScenarioC(data) ==
    /\ ~Insufficient(data)
    /\ data.latest.RSI = Rat(25, 1)
    /\ data.latest.MACD_Hist = Rat(2, 10) /\ data.prev.MACD_Hist = Rat(-1, 10)
    /\ data.latest.BB_Pct = Rat(3, 100)
    /\ VolumeAdds(data.latest, data.prev) = AddsNothing
    /\ MovingAverageAdds(data.latest, data.prev) = AddsNothing
    /\ MomentumAdds(data.latest) = AddsNothing
C24_ScenarioThreeStrongBuys ==
    (Analyzed /\ ScenarioC(call.data) /\ call.min_signal_strength = Rat(2, 1)) =>
        /\ result.action = "BUY"
        /\ result.strength = Rat(4, 1)
        /\ result.reasons = <<"RSI oversold", "MACD bullish crossover",
                              "Price at lower Bollinger Band">>
C24_Witness ==
    /\ Analyzed /\ ScenarioC(call.data) /\ call.min_signal_strength = Rat(2, 1)
    /\ result.action = "BUY"
    /\ Len(result.reasons) = 3


-----------------------------------------------------------------------------
(* live_trader.main: the scheduler *)

MARKET_OPEN_HOUR == 9
MARKET_OPEN_MIN == 30
MARKET_CLOSE_HOUR == 16
MARKET_CLOSE_MIN == 0
EXTENDED_OPEN_HOUR == 8
EXTENDED_OPEN_MIN == 0
EXTENDED_CLOSE_HOUR == 18
EXTENDED_CLOSE_MIN == 0

MinuteOfDay(hour, minute) == hour * 60 + minute

\* the instants of a day at which the clock is read: before, at and after
\* the boundaries of the two windows
EasternMinutes ==
    <<MinuteOfDay(7, 0), MinuteOfDay(8, 0), MinuteOfDay(9, 30),
      MinuteOfDay(16, 0), MinuteOfDay(18, 0), MinuteOfDay(19, 0)>>
EasternInstants ==
    {[weekday |-> d, minute |-> EasternMinutes[i]] :
        d \in 0..6, i \in 1..Len(EasternMinutes)}

\* the instant after `now`
Later(now) ==
    IF now.minute = EasternMinutes[Len(EasternMinutes)]
    THEN [weekday |-> (now.weekday + 1) % 7, minute |-> EasternMinutes[1]]
    ELSE [weekday |-> now.weekday,
          minute |-> EasternMinutes[
              1 + CHOOSE i \in 1..Len(EasternMinutes) : EasternMinutes[i] = now.minute]]

\* time.sleep, and the time a cycle takes: the clock stays at the instant or
\* moves to the next
Elapsed(now) == {now, Later(now)}

\* dt.weekday() < 5: Monday is 0
is_weekday(dt) == dt.weekday < 5

\* variant: the day of the week is not looked at
is_market_hours_AnyDay(now, extended) ==
    IF extended
    THEN /\ MinuteOfDay(EXTENDED_OPEN_HOUR, EXTENDED_OPEN_MIN) <= now.minute
         /\ now.minute <= MinuteOfDay(EXTENDED_CLOSE_HOUR, EXTENDED_CLOSE_MIN)
    ELSE /\ MinuteOfDay(MARKET_OPEN_HOUR, MARKET_OPEN_MIN) <= now.minute
         /\ now.minute <= MinuteOfDay(MARKET_CLOSE_HOUR, MARKET_CLOSE_MIN)

is_market_hours(now, extended) ==
    IF ~is_weekday(now) THEN FALSE
    ELSE IF extended
    THEN /\ MinuteOfDay(EXTENDED_OPEN_HOUR, EXTENDED_OPEN_MIN) <= now.minute
         /\ now.minute <= MinuteOfDay(EXTENDED_CLOSE_HOUR, EXTENDED_CLOSE_MIN)
    ELSE /\ MinuteOfDay(MARKET_OPEN_HOUR, MARKET_OPEN_MIN) <= now.minute
         /\ now.minute <= MinuteOfDay(MARKET_CLOSE_HOUR, MARKET_CLOSE_MIN)

\* the open of the configured window, as a minute of the day
OpenMinute(extended) ==
    IF extended THEN MinuteOfDay(EXTENDED_OPEN_HOUR, EXTENDED_OPEN_MIN)
    ELSE MinuteOfDay(MARKET_OPEN_HOUR, MARKET_OPEN_MIN)

\* `while next_day.weekday() >= 5: next_day += timedelta(days=1)`
RECURSIVE SkipWeekend(_)
SkipWeekend(next_day) ==
    IF next_day.weekday >= 5
    THEN SkipWeekend([weekday |-> (next_day.weekday + 1) % 7,
                      days |-> next_day.days + 1])
    ELSE next_day

\* variant: the open of tomorrow, whatever day tomorrow is
time_until_market_open_Tomorrow(now, extended) ==
    IF now.minute < OpenMinute(extended) /\ is_weekday(now)
    THEN [secs |-> (OpenMinute(extended) - now.minute) * 60,
          next_open |-> [weekday |-> now.weekday, minute |-> OpenMinute(extended)]]
    ELSE [secs |-> (1440 + OpenMinute(extended) - now.minute) * 60,
          next_open |-> [weekday |-> (now.weekday + 1) % 7,
                         minute |-> OpenMinute(extended)]]

\* (seconds until the next open, the next open)
time_until_market_open(now, extended) ==
    IF now.minute < OpenMinute(extended) /\ is_weekday(now)
    THEN [secs |-> (OpenMinute(extended) - now.minute) * 60,
          next_open |-> [weekday |-> now.weekday, minute |-> OpenMinute(extended)]]
    ELSE LET next_day == SkipWeekend([weekday |-> (now.weekday + 1) % 7,
                                      days |-> 1])
         IN  [secs |-> (next_day.days * 1440 + OpenMinute(extended) - now.minute) * 60,
              next_open |-> [weekday |-> next_day.weekday,
                             minute |-> OpenMinute(extended)]]

\* the three calls of run_cycle in main, and the cycle each of them runs
CallSites == {"market", "after_hours", "weekend"}
InCycle(site) ==
    CASE site = "market" -> "market_cycle"
      [] site = "after_hours" -> "after_hours_cycle"
      [] site = "weekend" -> "weekend_cycle"
Cycles == {InCycle(site) : site \in CallSites}
AfterCycle(cycle) ==
    CASE cycle = "market_cycle" -> "market_wait"
      [] cycle = "after_hours_cycle" -> "after_hours_wait"
      [] cycle = "weekend_cycle" -> "closed"
\* crypto_only=True is passed outside the market branch
CryptoOnly(cycle) == cycle /= "market_cycle"

\* the strategy and the market of the scheduler's cycles
SchedulerConfig ==
    CHOOSE config \in Configs :
        config.max_position_pct = Rat(15, 100) /\ config.max_positions = 2
SchedulerMarkets ==
    {m \in Markets : /\ m["BTC-USD"].action = "HOLD"
                     /\ m["AAPL"] \in {Quote(Rat(100, 1), "BUY", Rat(3, 1)),
                                        Quote(Rat(94, 1), "SELL", Rat(2, 1))}}

\* main has loaded the ledger and is at `while running:`
InitScheduler ==
    /\ starting_cash = BotStartingCash
    /\ cash = BotStartingCash
    /\ positions = EmptyMap
    /\ trade_history = <<>>
    /\ clock = 0
    /\ created_at = 0
    /\ last_updated = 0
    /\ portfolio_file = SavedState(BotStartingCash, BotStartingCash, 0, 0, EmptyMap,
                                   <<>>)
    /\ history_file = HistoryAfterSnapshot(<<>>, 0, BotStartingCash, EmptyMap)
    /\ call = Call("load", "", None, BotStartingCash, EmptyMap)
    /\ result = ReturnedNone
    /\ running = TRUE
    /\ pc = "loop"
    /\ eastern \in EasternInstants
    /\ settings \in [extended : BOOLEAN, crypto_247 : BOOLEAN]
    /\ data_dirs = [b \in BotIds |-> EmptyDir]
    /\ fleet = FleetIdle(FALSE)

SchedulerCall(op) == [op |-> op]
LedgerUnchanged ==
    UNCHANGED <<starting_cash, cash, positions, trade_history, created_at,
                last_updated, portfolio_file, history_file, clock>>

\* signal_handler: SIGINT or SIGTERM arrives, wherever main is
signal_handler ==
    /\ pc \notin {"main", "shutdown"}
    /\ running
    /\ running' = FALSE
    /\ call' = SchedulerCall("signal_handler")
    /\ UNCHANGED <<pc, eastern, settings, data_dirs, fleet, result>>
    /\ LedgerUnchanged

\* `while running:` and the choice of the branch; the closed branch begins
\* with time_until_market_open, whose result is printed
LoopTest ==
    /\ pc = "loop"
    /\ pc' = IF ~running THEN "shutdown"
             ELSE IF is_market_hours(eastern, settings.extended) THEN "market"
             ELSE IF settings.crypto_247 /\ is_weekday(eastern) THEN "after_hours"
             ELSE "closed"
    /\ call' = IF pc' = "closed"
               THEN [op |-> "loop",
                     opens |-> time_until_market_open(eastern, settings.extended)]
               ELSE SchedulerCall("loop")
    /\ UNCHANGED <<running, eastern, settings, data_dirs, fleet, result>>
    /\ LedgerUnchanged

\* run_cycle is called
CycleBegins ==
    /\ pc \in CallSites
    /\ pc' = InCycle(pc)
    /\ call' = SchedulerCall("cycle_begins")
    /\ UNCHANGED <<running, eastern, settings, data_dirs, fleet, result>>
    /\ LedgerUnchanged

\* run_cycle returns, or its exception ends the process: main has no handler
CycleEnds(market) ==
    /\ pc \in Cycles
    /\ RunsCycle(FALSE, CryptoOnly(pc), SchedulerConfig, market)
    /\ pc' = IF result'.ok THEN AfterCycle(pc) ELSE "crashed"
    /\ eastern' \in Elapsed(eastern)
    /\ UNCHANGED <<running, settings, data_dirs, fleet>>

\* the waits for the next scan and the sleep each of them is in
WaitSites == {"market_wait", "after_hours_wait"}
InSleep(site) ==
    CASE site = "market_wait" -> "market_sleep"
      [] site = "after_hours_wait" -> "after_hours_sleep"
SleepSites == {InSleep(site) : site \in WaitSites}
AfterSleep(sleep) ==
    CASE sleep = "market_sleep" -> "market_wait"
      [] sleep = "after_hours_sleep" -> "after_hours_wait"

\* variant: the wait looks at the time only
IntervalWait_IgnoresFlag ==
    /\ pc \in WaitSites
    /\ pc' \in {InSleep(pc), "loop"}
    /\ call' = SchedulerCall("wait")
    /\ UNCHANGED <<running, eastern, settings, data_dirs, fleet, result>>
    /\ LedgerUnchanged

\* `if running:` and `while running and time.time() < wait_until:`; whether
\* the interval is over is the clock's choice
IntervalWait ==
    /\ pc \in WaitSites
    /\ pc' \in IF running THEN {InSleep(pc), "loop"} ELSE {"loop"}
    /\ call' = SchedulerCall("wait")
    /\ UNCHANGED <<running, eastern, settings, data_dirs, fleet, result>>
    /\ LedgerUnchanged

\* time.sleep(min(5, wait_until - time.time())): one increment of the wait
IntervalSleep ==
    /\ pc \in SleepSites
    /\ pc' = AfterSleep(pc)
    /\ eastern' \in Elapsed(eastern)
    /\ call' = SchedulerCall("interval_sleep")
    /\ UNCHANGED <<running, settings, data_dirs, fleet, result>>
    /\ LedgerUnchanged

\* `while running and not is_market_hours(extended=extended):`
ClosedTest ==
    /\ pc = "closed"
    /\ pc' = IF running /\ ~is_market_hours(eastern, settings.extended)
             THEN "closed_sleep" ELSE "loop"
    /\ call' = SchedulerCall("closed")
    /\ UNCHANGED <<running, eastern, settings, data_dirs, fleet, result>>
    /\ LedgerUnchanged

\* time.sleep(60), then `if crypto_247 and running:`
ClosedSleep ==
    /\ pc = "closed_sleep"
    /\ eastern' \in Elapsed(eastern)
    /\ pc' = IF settings.crypto_247 /\ running THEN "crypto_wait" ELSE "closed"
    /\ call' = SchedulerCall("sleep")
    /\ UNCHANGED <<running, settings, data_dirs, fleet, result>>
    /\ LedgerUnchanged

\* `while running and elapsed_wait < interval_sec * 4 and not
\* is_market_hours(extended=extended):`, and after the four intervals
\* `if running and not is_market_hours(extended=extended):`
CryptoWait ==
    /\ pc = "crypto_wait"
    /\ pc' \in IF running /\ ~is_market_hours(eastern, settings.extended)
               THEN {"crypto_sleep", "weekend"} ELSE {"closed"}
    /\ call' = SchedulerCall("crypto_wait")
    /\ UNCHANGED <<running, eastern, settings, data_dirs, fleet, result>>
    /\ LedgerUnchanged

\* time.sleep(min(30, interval_sec * 4 - elapsed_wait)): one increment
CryptoSleep ==
    /\ pc = "crypto_sleep"
    /\ pc' = "crypto_wait"
    /\ eastern' \in Elapsed(eastern)
    /\ call' = SchedulerCall("crypto_sleep")
    /\ UNCHANGED <<running, settings, data_dirs, fleet, result>>
    /\ LedgerUnchanged

NextScheduler ==
    \/ signal_handler
    \/ LoopTest
    \/ CycleBegins
    \/ \E market \in SchedulerMarkets : CycleEnds(market)
    \/ IntervalWait
    \/ IntervalSleep
    \/ ClosedTest
    \/ ClosedSleep
    \/ CryptoWait
    \/ CryptoSleep

SpecScheduler == InitScheduler /\ [][NextScheduler]_vars

-----------------------------------------------------------------------------
(* Properties of the scheduler *)

\* a step in which a run_cycle call starts
CycleStarts == pc \notin Cycles /\ pc' \in Cycles
Weekend == {5, 6}
RegularWindow == MinuteOfDay(9, 30)..MinuteOfDay(16, 0)
ExtendedWindow == MinuteOfDay(8, 0)..MinuteOfDay(18, 0)
InWindow(now, extended) ==
    now.minute \in IF extended THEN ExtendedWindow ELSE RegularWindow

\* C25: with after-hours crypto disabled the scheduler starts a cycle only at
\* an instant that is a weekday within the configured window (regular
\* 09:30-16:00 or extended 08:00-18:00 Eastern): from a clock outside market
\* hours no cycle starts before the clock reaches the next open, and none on
\* Saturday or Sunday.
C25_CyclesOnlyInMarketHours ==
    [][(CycleStarts /\ ~settings.crypto_247) =>
          /\ eastern.weekday \notin Weekend
          /\ InWindow(eastern, settings.extended)]_vars
\* a cycle in flight at the Monday open, the toggle being off
C25_Witness ==
    /\ pc = "market_cycle"
    /\ ~settings.crypto_247 /\ ~settings.extended
    /\ eastern = [weekday |-> 0, minute |-> MinuteOfDay(9, 30)]

\* C26: shutdown is cooperative: a stop request only sets the running flag; a
\* cycle in flight when it arrives runs to completion (its sells, buys and
\* saves are carried out); and once the request has been received no new cycle
\* is started, in any branch of the loop.
StopRequested == ~running
RequestOnlySetsFlag ==
    (running /\ ~running') =>
        /\ pc' = pc
        /\ CurrentLedger' = CurrentLedger
        /\ eastern' = eastern
CycleInFlightCompletes ==
    (pc \in Cycles /\ pc' /= pc) =>
        /\ call'.op = "run_cycle"
        /\ pc' = AfterCycle(pc)
NoCycleStartsAfterRequest == CycleStarts => ~StopRequested
C26_ShutdownIsCooperative ==
    [][/\ RequestOnlySetsFlag
       /\ CycleInFlightCompletes
       /\ NoCycleStartsAfterRequest]_vars

\* C27: a crypto-restricted cycle is run only when the restricted mode is
\* enabled and the day is a weekday: on Saturday and Sunday the scheduler runs
\* no cycle of any kind, whether the toggle is set or not.
C27_RestrictedCyclesOnWeekdaysOnly ==
    [][CycleStarts =>
          /\ eastern.weekday \notin Weekend
          /\ CryptoOnly(pc') => settings.crypto_247]_vars

-----------------------------------------------------------------------------
(* Properties of the crypto-restricted cycle *)

\* C28: a crypto-restricted cycle affects only crypto-classified symbols: it
\* scans only the crypto entries of the watchlist and neither re-prices,
\* evaluates for exit nor sells a held position that is not crypto, so every
\* trade appended during such a cycle has asset_type crypto and all
\* non-crypto positions are unchanged.
NonCrypto(pos_map) == {s \in DOMAIN pos_map : pos_map[s].asset_type /= "crypto"}
SignalsOnCryptoOnly(signals) ==
    \A i \in 1..Len(signals) : signals[i].asset_type = "crypto"
RestrictedToCrypto(before, after, outcome) ==
    /\ SignalsOnCryptoOnly(outcome.buy_signals)
    /\ SignalsOnCryptoOnly(outcome.sell_signals)
    /\ \A i \in (Len(before.trade_history) + 1)..Len(after.trade_history) :
          after.trade_history[i].asset_type = "crypto"
    /\ \A s \in NonCrypto(before.positions) :
          s \in DOMAIN after.positions /\ after.positions[s] = before.positions[s]
C28_RestrictedCycleTouchesCryptoOnly ==
    [][(CycleStep /\ call'.crypto_only) =>
          \E before \in {CurrentLedger} : \E after \in {CurrentLedger'} :
          \E outcome \in {result'} :
              RestrictedToCrypto(before, after, outcome)]_vars

-----------------------------------------------------------------------------
(* multi_trader: the fleet *)

MaxFleetTicks == 2

\* get_bot_data_dir: BOTS_DIR / bot_id (a variant shares one directory)
get_bot_data_dir_Shared(bot_id) == BOT_ROSTER[1]
get_bot_data_dir(bot_id) == bot_id

\* load_bot_config: bots/<bot_id>/config.json, one strategy for each bot
BotConfig(bot_id) ==
    CHOOSE config \in Configs :
        /\ config.max_position_pct =
              IF bot_id \in {"momentum_pete", "yolo_yolanda"}
              THEN Rat(6, 10) ELSE Rat(15, 100)
        /\ config.max_positions =
              IF bot_id \in {"cautious_carl", "yolo_yolanda"} THEN 1 ELSE 2

\* Portfolio.load(starting_cash, data_dir) on the files of the directory
LoadedFrom(dir, config_starting_cash, now) ==
    IF dir.portfolio_file.kind = "absent"
    THEN save_on([starting_cash |-> config_starting_cash,
                  cash |-> config_starting_cash,
                  positions |-> EmptyMap,
                  trade_history |-> <<>>,
                  created_at |-> now,
                  last_updated |-> now,
                  portfolio_file |-> dir.portfolio_file,
                  history_file |-> dir.history_file], now)
    ELSE [starting_cash |-> dir.portfolio_file.starting_cash,
          cash |-> dir.portfolio_file.cash,
          positions |-> [s \in DOMAIN dir.portfolio_file.positions |->
                            from_dict(dir.portfolio_file.positions[s])],
          trade_history |-> dir.portfolio_file.trade_history,
          created_at |-> dir.portfolio_file.created_at,
          last_updated |-> dir.portfolio_file.last_updated,
          portfolio_file |-> dir.portfolio_file,
          history_file |-> dir.history_file]

\* Portfolio.total_return_pct
total_return_pct_of(L) ==
    IF L.starting_cash = Zero THEN Zero
    ELSE RMul(RDiv(RSub(total_value_of(L.cash, L.positions), L.starting_cash),
                   L.starting_cash), Rat(100, 1))

\* the dict run_single_bot returns; after an exception it is a fixed summary
BotResult(bot_id, L, executed, raised) ==
    [bot_id |-> bot_id,
     summary |-> IF raised
                 THEN [cash |-> Rat(10000, 1), total_value |-> Rat(10000, 1),
                       total_return_pct |-> Zero, num_positions |-> 0]
                 ELSE [cash |-> L.cash,
                       total_value |-> total_value_of(L.cash, L.positions),
                       total_return_pct |-> total_return_pct_of(L),
                       num_positions |-> Cardinality(DOMAIN L.positions)],
     trades_this_cycle |-> IF raised THEN 0 ELSE Len(executed)]

\* the body of run_single_bot on a loaded ledger
BotCycle(L, scan_only, config, market, now) ==
    LET refreshed == PricesRefreshed(L, FALSE, market, now)
        scan == run_scan(refreshed, config, market, Watchlist)
        done == IF ~scan.raised /\ Executes(scan_only, scan)
                THEN execute_signals(refreshed, config, scan.buy_signals,
                                     scan.sell_signals, now)
                ELSE Progress(refreshed, <<>>)
    IN  [ledger |-> done.ledger, executed |-> done.executed,
         raised |-> scan.raised]

FilesOf(L) == [portfolio_file |-> L.portfolio_file, history_file |-> L.history_file]

\* sorted(results, key=total_return_pct, reverse=True): stable
RECURSIVE InsertByReturn(_, _)
InsertByReturn(sorted, r) ==
    IF sorted = <<>> THEN <<r>>
    ELSE IF RGe(Head(sorted).summary.total_return_pct, r.summary.total_return_pct)
         THEN <<Head(sorted)>> \o InsertByReturn(Tail(sorted), r)
         ELSE <<r>> \o sorted
RECURSIVE RankedByReturn(_)
RankedByReturn(results) ==
    IF results = <<>> THEN <<>>
    ELSE InsertByReturn(RankedByReturn(SubSeq(results, 1, Len(results) - 1)),
                        results[Len(results)])

\* the market of the fleet's cycles
FleetMarkets ==
    {m \in Markets : /\ m["BTC-USD"].action = "HOLD"
                     /\ m["AAPL"] \in {Quote(Rat(100, 1), "BUY", Rat(3, 1)),
                                        Quote(Rat(94, 1), "SELL", Rat(2, 1))}}

\* multi_trader.main before the first tick; the bot directories hold no
\* ledger yet
InitFleet ==
    /\ starting_cash = BotStartingCash
    /\ cash = BotStartingCash
    /\ positions = EmptyMap
    /\ trade_history = <<>>
    /\ clock = 0
    /\ created_at = 0
    /\ last_updated = 0
    /\ portfolio_file = Absent
    /\ history_file = <<>>
    /\ call = Call("init", "", None, None, EmptyMap)
    /\ result = ReturnedNone
    /\ running = TRUE
    /\ pc = "main"
    /\ eastern = [weekday |-> 0, minute |-> 0]
    /\ settings = [extended |-> FALSE, crypto_247 |-> FALSE]
    /\ data_dirs = [b \in BotIds |-> EmptyDir]
    /\ fleet \in {FleetIdle(scan_only) : scan_only \in BOOLEAN}

FleetUnchanged ==
    UNCHANGED <<starting_cash, cash, positions, trade_history, created_at,
                last_updated, portfolio_file, history_file, clock, running, pc,
                eastern, settings>>

\* run_all_bots is called
TickStarts ==
    /\ fleet.pc \in {"main", "ranked"}
    /\ fleet.ticks < MaxFleetTicks
    /\ fleet' = [fleet EXCEPT !.pc = "tick", !.ticks = @ + 1, !.next = 1,
                              !.results = <<>>]
    /\ call' = [op |-> "run_all_bots"]
    /\ UNCHANGED <<data_dirs, result>>
    /\ FleetUnchanged

\* bots/<bot_id>/config.json as load_bot_config finds it: readable, absent,
\* not JSON, or JSON whose "strategy" entry is no mapping
ConfigFiles == {"ok", "missing", "malformed", "bad_strategy"}

\* open() or json.load() of load_bot_config raises: no Portfolio is built
RaisesBeforeLoad(config_file) == config_file \in {"missing", "malformed"}

\* OpenClawBot(config) raises, after Portfolio.load has returned
RaisesInConstructor(config_file) == config_file = "bad_strategy"

\* what the files of a directory hold for a call that never loaded them
Unloaded(dir) ==
    [starting_cash |-> None,
     cash |-> None,
     positions |-> EmptyMap,
     trade_history |-> <<>>,
     created_at |-> 0,
     last_updated |-> 0,
     portfolio_file |-> dir.portfolio_file,
     history_file |-> dir.history_file]

\* variant: a failure after the load removes the files of the directory
TryBody_FailureClearsFiles(bot_id, dir, config_file, market, scan_only, now) ==
    IF RaisesBeforeLoad(config_file)
    THEN [ledger |-> Unloaded(dir), executed |-> <<>>, raised |-> TRUE]
    ELSE LET portfolio == LoadedFrom(dir, BotStartingCash, now)
             done == BotCycle(portfolio, scan_only, BotConfig(bot_id), market, now)
         IN  IF RaisesInConstructor(config_file) \/ done.raised
             THEN [ledger |-> Unloaded(EmptyDir), executed |-> <<>>,
                   raised |-> TRUE]
             ELSE done

\* the try block of run_single_bot up to the exception or its end
TryBody(bot_id, dir, config_file, market, scan_only, now) ==
    IF RaisesBeforeLoad(config_file)
    THEN [ledger |-> Unloaded(dir), executed |-> <<>>, raised |-> TRUE]
    ELSE LET portfolio == LoadedFrom(dir, BotStartingCash, now)
         IN  IF RaisesInConstructor(config_file)
             THEN [ledger |-> portfolio, executed |-> <<>>, raised |-> TRUE]
             ELSE BotCycle(portfolio, scan_only, BotConfig(bot_id), market, now)

\* run_single_bot(BOT_ROSTER[next]) of the loop of run_all_bots
run_single_bot(market, config_file) ==
    /\ fleet.pc = "tick"
    /\ fleet.next <= Len(BOT_ROSTER)
    /\ \E bot_id \in {BOT_ROSTER[fleet.next]} :
       \E data_dir \in {get_bot_data_dir(bot_id)} :
       \E done \in {TryBody(bot_id, data_dirs[data_dir], config_file, market,
                            fleet.scan_only, clock)} :
           /\ data_dirs' = [data_dirs EXCEPT ![data_dir] = FilesOf(done.ledger)]
           /\ fleet' = [fleet EXCEPT
                           !.next = @ + 1,
                           !.results = Append(@, BotResult(bot_id, done.ledger,
                                                           done.executed,
                                                           done.raised))]
           /\ call' = [op |-> "run_single_bot", bot_id |-> bot_id,
                       data_dir |-> data_dir, config_file |-> config_file]
           /\ result' = [ok |-> TRUE,
                         msg |-> IF done.raised THEN "bot error" ELSE "bot",
                         ledger |-> done.ledger]
    /\ FleetUnchanged

\* the leaderboard of run_all_bots, which then returns
Leaderboard ==
    /\ fleet.pc = "tick"
    /\ fleet.next > Len(BOT_ROSTER)
    /\ fleet' = [fleet EXCEPT !.pc = "ranked",
                              !.ranked = RankedByReturn(fleet.results)]
    /\ call' = [op |-> "leaderboard"]
    /\ UNCHANGED <<data_dirs, result>>
    /\ FleetUnchanged

NextFleet ==
    \/ TickStarts
    \/ \E market \in FleetMarkets : run_single_bot(market, "ok")
    \/ Leaderboard

SpecFleet == InitFleet /\ [][NextFleet]_vars

-----------------------------------------------------------------------------
(* Properties of the fleet *)

\* C29: in one fleet tick the strategies are processed one after another in
\* the roster order, each against its own ledger loaded from its own storage
\* directory; the cycle of strategy i leaves the ledger (cash, positions,
\* trade_history) and the equity history of every other strategy unchanged,
\* and the leaderboard computed afterwards changes no ledger.
BotStep == call'.op = "run_single_bot"
LeaderboardStep == call'.op = "leaderboard"
IsPrefix(s, t) == Len(s) <= Len(t) /\ SubSeq(t, 1, Len(s)) = s
InRosterOrder(i, bot_id, results_before, results_after) ==
    /\ bot_id = BOT_ROSTER[i]
    /\ Len(results_before) = i - 1
    /\ Len(results_after) = i
    /\ IsPrefix(results_before, results_after)
    /\ results_after[i].bot_id = BOT_ROSTER[i]
OnOwnLedger(bot_id, before, after, ledger) ==
    /\ after[bot_id] = FilesOf(ledger)
    /\ before[bot_id].portfolio_file.kind = "state" =>
          /\ ledger.starting_cash = before[bot_id].portfolio_file.starting_cash
          /\ ledger.created_at = before[bot_id].portfolio_file.created_at
          /\ IsPrefix(before[bot_id].portfolio_file.trade_history,
                      ledger.trade_history)
          /\ IsPrefix(before[bot_id].history_file, ledger.history_file)
OthersUntouched(bot_id, before, after) ==
    \A other \in BotIds \ {bot_id} : after[other] = before[other]
RankingOf(results, ranked) ==
    /\ Len(ranked) = Len(results)
    /\ \A i \in 1..Len(results) : \E k \in 1..Len(ranked) : ranked[k] = results[i]
    /\ \A k \in 1..(Len(ranked) - 1) :
          RGe(ranked[k].summary.total_return_pct,
              ranked[k + 1].summary.total_return_pct)
C29_FleetLedgersDisjoint ==
    [][/\ BotStep =>
            \E i \in {fleet.next} : \E bot_id \in {call'.bot_id} :
            \E before \in {data_dirs} : \E after \in {data_dirs'} :
            \E ledger \in {result'.ledger} :
                /\ InRosterOrder(i, bot_id, fleet.results, fleet'.results)
                /\ OnOwnLedger(bot_id, before, after, ledger)
                /\ OthersUntouched(bot_id, before, after)
       /\ LeaderboardStep =>
            /\ data_dirs' = data_dirs
            /\ fleet'.results = fleet.results
            /\ RankingOf(fleet.results, fleet'.ranked)]_vars
\* the second strategy of the roster has traded in the second tick, next to
\* the ledger of the first, which holds trades of its own
C29_Witness ==
    /\ call.op = "run_single_bot"
    /\ call.bot_id = BOT_ROSTER[2]
    /\ fleet.ticks = 2
    /\ fleet.results[2].trades_this_cycle > 0
    /\ data_dirs[BOT_ROSTER[1]].portfolio_file.trade_history /= <<>>
    /\ data_dirs[BOT_ROSTER[2]].portfolio_file.trade_history
          /= data_dirs[BOT_ROSTER[1]].portfolio_file.trade_history
\* a leaderboard whose order differs from the roster order
C29_RankedWitness ==
    /\ call.op = "leaderboard"
    /\ fleet.ranked /= fleet.results

-----------------------------------------------------------------------------
(* The scheduler on a market where the analysis of a symbol fails *)

\* the computation for AAPL raises; BTC-USD is analysed as usual
FaultyMarkets ==
    {m \in [Symbols -> UNION {Quotes(s) : s \in Symbols}
                          \cup {Quote(Rat(100, 1), "ERROR", Zero)}] :
        /\ m["AAPL"] = Quote(Rat(100, 1), "ERROR", Zero)
        /\ m["BTC-USD"] \in Quotes("BTC-USD")}

NextFaulty ==
    \/ NextScheduler
    \/ \E market \in FaultyMarkets : CycleEnds(market)

SpecFaulty == InitScheduler /\ [][NextFaulty]_vars

\* C30: a computation failure while analysing one symbol during run_scan, a
\* watchlist symbol or a held symbol analysed in the exit check, is contained
\* to that symbol: it produces no signal, run_scan still returns and the
\* scheduler process does not crash.
NoSignalFor(symbols, signals) ==
    \A i \in 1..Len(signals) : signals[i].symbol \notin symbols
FailureContained(outcome) ==
    /\ outcome.ok
    /\ NoSignalFor(outcome.failed, outcome.buy_signals)
    /\ NoSignalFor(outcome.failed, outcome.sell_signals)
C30_AnalysisFailureContained ==
    [][CycleStep =>
          /\ \E outcome \in {result'} : FailureContained(outcome)
          /\ pc' /= "crashed"]_vars
\* the contained half: the analysis of a watchlist symbol failed and the
\* symbol after it was still evaluated and gave its buy signal
C30_WatchlistFailureContained ==
    /\ call.op = "run_cycle"
    /\ result.ok
    /\ result.failed = {"AAPL"}
    /\ \E i \in 1..Len(result.buy_signals) : result.buy_signals[i].symbol = "BTC-USD"
    /\ pc /= "crashed"

-----------------------------------------------------------------------------
(* The trade history as a record of the cash *)

\* the sum of `total` over the records of one action
RECURSIVE TotalsOf(_, _)
TotalsOf(history, action) ==
    IF history = <<>>
    THEN Zero
    ELSE LET t == history[Len(history)]
             rest == TotalsOf(SubSeq(history, 1, Len(history) - 1), action)
         IN  IF t.action = action THEN RAdd(rest, t.total) ELSE rest

\* cash as the records account for it
CashByRecords(sc, history) ==
    RAdd(RSub(sc, TotalsOf(history, "BUY")), TotalsOf(history, "SELL"))

RecordsBalanced ==
    /\ cash = CashByRecords(starting_cash, trade_history)
    /\ trade_history /= <<>> => cash = LastTrade.cash_after
    /\ \A i \in 1..Len(trade_history) :
          trade_history[i].total = RMul(trade_history[i].quantity,
                                        trade_history[i].price)

\* what one step does to the history
AppendsOne(before, after, action, c) ==
    /\ Len(after) = Len(before) + 1
    /\ IsPrefix(before, after)
    /\ after[Len(after)].action = action
    /\ after[Len(after)].cash_after = c

HistoryStep ==
    /\ IsPrefix(trade_history, trade_history')
    /\ (call'.op = "buy" /\ result'.ok) =>
          AppendsOne(trade_history, trade_history', "BUY", cash')
    /\ (call'.op = "sell" /\ result'.ok) =>
          AppendsOne(trade_history, trade_history', "SELL", cash')
    /\ (call'.op \in {"buy", "sell"} /\ ~result'.ok) =>
          trade_history' = trade_history
    /\ call'.op = "update_prices" => trade_history' = trade_history

-----------------------------------------------------------------------------
(* run_scan on its own (the __main__ of bot.py and run.run_full call it on a
   loaded ledger), over a watchlist of four *)

ScanWatchlist ==
    <<[symbol |-> "AAPL", type |-> "stock"],
      [symbol |-> "MSFT", type |-> "stock"],
      [symbol |-> "SPY", type |-> "etf"],
      [symbol |-> "BTC-USD", type |-> "crypto"]>>
ScanSymbols == {ScanWatchlist[i].symbol : i \in 1..Len(ScanWatchlist)}

\* the price the ledger bought at and the marks of update_prices: 94 is
\* under the stop loss of 5%, 110 is at the take profit of 10% and, after
\* 114, under the trailing stop of 3%
ScanQuotePrice == Rat(100, 1)
ScanMarks(symbol) ==
    CASE symbol = "AAPL" -> {Rat(94, 1), ScanQuotePrice, Rat(110, 1), Rat(114, 1)}
      [] symbol = "BTC-USD" -> {Rat(94, 1), ScanQuotePrice}
      [] OTHER -> {ScanQuotePrice}
ScanPriceMaps(held) ==
    {pm \in [held -> UNION {ScanMarks(s) : s \in held}] :
        \A s \in held : pm[s] \in ScanMarks(s)}

ScanQuotes(symbol) ==
    CASE symbol = "AAPL" -> {Quote(ScanQuotePrice, "BUY", Rat(2, 1)),
                             Quote(ScanQuotePrice, "BUY", Rat(3, 1))}
      [] symbol = "MSFT" -> {Quote(ScanQuotePrice, "BUY", Rat(3, 1)),
                             Quote(ScanQuotePrice, "HOLD", Zero)}
      [] symbol = "SPY" -> {Quote(ScanQuotePrice, "BUY", Rat(2, 1)),
                            Quote(ScanQuotePrice, "BUY", Rat(4, 1))}
      [] OTHER -> {Quote(ScanQuotePrice, "BUY", Rat(3, 1)),
                   Quote(ScanQuotePrice, "SELL", Rat(3, 1))}

ScanMarkets ==
    {m \in [ScanSymbols -> UNION {ScanQuotes(s) : s \in ScanSymbols}] :
        \A s \in ScanSymbols : m[s] \in ScanQuotes(s)}

\* room for two or for all four positions
ScanConfigs ==
    {[max_position_pct |-> Rat(15, 100), max_positions |-> limit,
      stop_loss_pct |-> Rat(5, 100), take_profit_pct |-> Rat(10, 100),
      trailing_stop_pct |-> Rat(3, 100), min_signal_strength |-> Rat(2, 1)] :
        limit \in {2, 4}}

ScanCall(config) == [op |-> "run_scan", config |-> config]

\* buy_signals, sell_signals, all_signals = bot.run_scan(portfolio)
Scan(config, market) ==
    \E scan \in {run_scan(CurrentLedger, config, market, ScanWatchlist)} :
        /\ call' = ScanCall(config)
        /\ result' = [ok |-> TRUE, msg |-> "scan",
                      buy_signals |-> scan.buy_signals,
                      sell_signals |-> scan.sell_signals,
                      all_signals |-> scan.all_signals]
        /\ UNCHANGED <<main_vars, starting_cash, cash, positions, trade_history,
                       created_at, last_updated, portfolio_file, history_file,
                       clock>>

\* the ledger is filled as the bot fills it (a symbol that is not held is
\* bought) and marked as run_full marks it (a price for every held symbol)
NextScan ==
    \/ \E s \in ScanSymbols \ Held, q \in BuyQuantities, r \in Reasons :
          buy(s, q, ScanQuotePrice, classify_asset(s), r)
    \/ \E pm \in ScanPriceMaps(Held) : update_prices(pm)
    \/ \E config \in ScanConfigs, market \in ScanMarkets : Scan(config, market)

SpecScan == InitBot /\ [][NextScan]_vars

ScanStep == call'.op = "run_scan"
Scanned == call.op = "run_scan"

\* the BUY signals of the scan, in the order the scan produced them
BuysFound(signals, min_signal_strength) ==
    LET IsBuy(signal) == /\ signal.action = "BUY"
                         /\ RGe(signal.strength, min_signal_strength)
    IN  SelectSeq(signals, IsBuy)

NonIncreasing(signals) ==
    \A i, j \in 1..Len(signals) :
        i < j => RGe(signals[i].strength, signals[j].strength)

\* returned is found rearranged, equal strengths in the order of found
StablePermutation(returned, found) ==
    /\ Len(returned) = Len(found)
    /\ \E f \in [1..Len(found) -> 1..Len(found)] :
          /\ \A i, j \in 1..Len(found) : i /= j => f[i] /= f[j]
          /\ \A i \in 1..Len(found) : returned[i] = found[f[i]]
          /\ \A i, j \in 1..Len(found) :
                (i < j /\ returned[i].strength = returned[j].strength)
                   => f[i] < f[j]

\* C32: run_scan returns the BUY candidates by strength in non-increasing
\* order, two candidates of equal strength in the order in which the
\* watchlist scan produced them, and the returned list is a permutation of
\* the BUY signals found in the scan.
C32_BuysRankedByStrength ==
    [][ScanStep =>
        \E scan \in {result'} :
        \E found \in {BuysFound(scan.all_signals,
                                call'.config.min_signal_strength)} :
            /\ NonIncreasing(scan.buy_signals)
            /\ StablePermutation(scan.buy_signals, found)]_vars

\* three candidates, two of them equal and the strongest found last
C32_Witness ==
    /\ Scanned
    /\ Len(result.buy_signals) >= 3
    /\ result.buy_signals /= BuysFound(result.all_signals,
                                      call.config.min_signal_strength)
    /\ \E i \in 1..Len(result.buy_signals) - 1 :
          result.buy_signals[i].strength = result.buy_signals[i + 1].strength

\* the part of all_signals that the watchlist loop appended
EntryPart(scan) ==
    SubSeq(scan.all_signals, Len(scan.sell_signals) + 1, Len(scan.all_signals))
SymbolsOf(signals) == {signals[i].symbol : i \in 1..Len(signals)}

\* the watchlist symbols that are not held, in watchlist order
NotHeld(watchlist, held) ==
    LET Free(item) == item.symbol \notin held
        free == SelectSeq(watchlist, Free)
    IN  [i \in 1..Len(free) |-> free[i].symbol]

AtCap(held, config) == Cardinality(held) >= config.max_positions

ScanKeepsOffHeld(scan, held, config) ==
    /\ SymbolsOf(EntryPart(scan)) \cap held = {}
    /\ SymbolsOf(scan.buy_signals) \cap held = {}
    /\ AtCap(held, config) =>
          EntryPart(scan) = <<>> /\ scan.buy_signals = <<>>
    /\ ~AtCap(held, config) =>
          [i \in 1..Len(EntryPart(scan)) |-> EntryPart(scan)[i].symbol]
             = NotHeld(ScanWatchlist, held)
    /\ SymbolsOf(scan.sell_signals) \cap SymbolsOf(scan.buy_signals) = {}
    /\ SymbolsOf(scan.sell_signals) \subseteq held

\* C33: the watchlist loop of run_scan analyses no watchlist symbol that is
\* held at scan time and emits no entry signal for one (below the limit it
\* analyses the symbols that are not held, in watchlist order), and it
\* analyses no entry at all once num_positions is at or above max_positions;
\* so no symbol is in both sell_signals and buy_signals of one scan, and
\* every signal of sell_signals is for a position held at scan time.
C33_ScanSkipsHeldAndStopsAtLimit ==
    [][ScanStep =>
        \E scan \in {result'} :
           ScanKeepsOffHeld(scan, DOMAIN positions, call'.config)]_vars

\* a scan with a position to leave and a candidate to enter
C33_Witness ==
    /\ Scanned
    /\ Held /= {}
    /\ result.sell_signals /= <<>>
    /\ result.buy_signals /= <<>>

\* a scan of a full ledger with watchlist symbols left over
C33_WitnessAtLimit ==
    /\ Scanned
    /\ AtCap(Held, call.config)
    /\ ScanSymbols \ Held /= {}
    /\ EntryPart(result) = <<>>

-----------------------------------------------------------------------------
(* The strength of the signals *)

\* C34: every forced-exit signal has a fixed strength that is maximal: for
\* all indicator inputs and all configurations no Signal of analyze_symbol
\* is stronger than the forced SELL of check_exit_conditions.
C34_ForcedExitStrengthMaximal ==
    Analyzed => RLe(result.strength, ExitStrength)

\* the reasons an exit signal is to carry: those of the price rules that
\* fired, in rule order, or else those of the signal engine
RuleReasons(pos, config) ==
    (IF StopLossDue(pos, pos.current_price, config)
     THEN <<"Stop loss">> ELSE <<>>)
    \o (IF TakeProfitDue(pos, pos.current_price, config)
        THEN <<"Take profit">> ELSE <<>>)
    \o (IF TrailingStopDue(pos, pos.current_price, config)
        THEN <<"Trailing stop">> ELSE <<>>)

ExitAsStated(signal, pos, config) ==
    /\ signal.action = "SELL"
    /\ signal.strength = ExitStrength
    /\ signal.reasons = IF RuleReasons(pos, config) = <<>>
                        THEN <<"technical">>
                        ELSE RuleReasons(pos, config)

\* the other half of C34: every exit signal of a scan has the fixed
\* strength, and its reasons are those of the rules that fired, in rule order
C34_ForcedReasonsInRuleOrder ==
    [][ScanStep =>
        \E scan \in {result'} :
           \A i \in 1..Len(scan.sell_signals) :
              ExitAsStated(scan.sell_signals[i],
                           positions[scan.sell_signals[i].symbol],
                           call'.config)]_vars

\* an exit on which two rules fired
C34_TwoRulesWitness ==
    /\ Scanned
    /\ \E i \in 1..Len(result.sell_signals) :
          result.sell_signals[i].reasons = <<"Take profit", "Trailing stop">>

-----------------------------------------------------------------------------
(* The equity history: one symbol at prices half a unit apart, so that a
   repricing moves the value by 1/2, 1 or 2, with half hours passing between
   the calls *)

SnapshotPrices == {Rat(1, 2), One}

NextSnapshots ==
    \/ \E s \in StorageSymbols, q \in BuyQuantities, p \in SnapshotPrices,
          r \in Reasons :
          buy(s, q, p, classify_asset(s), r)
    \/ \E s \in StorageSymbols, q \in StorageSellQuantities, r \in Reasons :
          sell(s, q, None, r)
    \/ \E pm \in [StorageSymbols -> SnapshotPrices] : update_prices(pm)
    \/ save
    \/ \E sc \in StartingCashes : load(sc)
    \/ Tick

SpecSnapshots == Init /\ [][NextSnapshots]_vars

\* the steps in which Portfolio.save runs
SaveStep ==
    \/ call'.op = "save"
    \/ call'.op \in {"buy", "sell"} /\ result'.ok
    \/ call'.op = "load" /\ LoadSaves(portfolio_file)

LastSnapshot == history_file[Len(history_file)]

\* the three conditions under which a snapshot is due
SnapshotDue(history, now, tv) ==
    \/ history = <<>>
    \/ now - history[Len(history)].timestamp >= SnapshotInterval
    \/ RGe(RAbs(RSub(tv, history[Len(history)].total_value)), One)

ThrottledAsStated(before, after, now, tv) ==
    IF SnapshotDue(before, now, tv)
    THEN /\ Len(after) = Len(before) + 1
         /\ IsPrefix(before, after)
         /\ after[Len(after)].timestamp = now
         /\ after[Len(after)].total_value = tv
    ELSE after = before

\* C35: on each save a snapshot is appended to the equity history if and
\* only if the history is empty, or at least 1 hour has passed since the
\* last recorded snapshot, or total_value differs from the last recorded
\* total_value by at least 1; otherwise the history is unchanged; no step
\* changes or removes an entry.
C35_SnapshotThrottle ==
    [][\E after \in {history_file'} : \E now \in {clock'} :
       \E tv \in {total_value_of(cash', positions')} :
          /\ IsPrefix(history_file, after)
          /\ SaveStep => ThrottledAsStated(history_file, after, now, tv)]_vars

\* a save half an hour after the last snapshot, with the value moved by 1/2,
\* that added nothing
C35_Witness ==
    /\ call.op = "save"
    /\ history_file /= <<>>
    /\ clock - LastSnapshot.timestamp = 1800
    /\ RAbs(RSub(total_value, LastSnapshot.total_value)) = Rat(1, 2)

\* a snapshot added by the hour alone, and one added by the value alone
C35_WitnessByTime ==
    /\ Len(history_file) >= 2
    /\ LastSnapshot.timestamp - history_file[Len(history_file) - 1].timestamp
          >= SnapshotInterval
    /\ LastSnapshot.total_value = history_file[Len(history_file) - 1].total_value
C35_WitnessByValue ==
    /\ Len(history_file) >= 2
    /\ LastSnapshot.timestamp = history_file[Len(history_file) - 1].timestamp
    /\ RAbs(RSub(LastSnapshot.total_value,
                 history_file[Len(history_file) - 1].total_value)) = One

-----------------------------------------------------------------------------
(* The wait for the open *)

MinutesOfWeek == 7 * 1440
\* the minutes from `now` to the next occurrence of the instant t after now
MinutesUntil(now, t) ==
    LET d == (MinutesOfWeek + (t.weekday * 1440 + t.minute)
                - (now.weekday * 1440 + now.minute)) % MinutesOfWeek
    IN  IF d = 0 THEN MinutesOfWeek ELSE d

\* the opens of the week: Monday to Friday at the configured open time
Opens(extended) ==
    {[weekday |-> d, minute |-> OpenMinute(extended)] : d \in 0..4}

NextWeekday(d) == IF d >= 4 THEN 0 ELSE d + 1

OpensAsStated(now, extended, opens) ==
    /\ opens.next_open \in Opens(extended)
    /\ \A t \in Opens(extended) :
          MinutesUntil(now, opens.next_open) <= MinutesUntil(now, t)
    /\ opens.next_open.weekday =
          IF now.weekday \notin Weekend /\ now.minute < OpenMinute(extended)
          THEN now.weekday
          ELSE NextWeekday(now.weekday)
    /\ opens.secs = MinutesUntil(now, opens.next_open) * 60
    /\ opens.secs > 0

\* the closed branch is entered
ClosedBegins == call'.op = "loop" /\ pc' = "closed"
\* time passes in a sleep of the closed branch
ClosedPoll == pc \in {"closed_sleep", "crypto_sleep"} /\ eastern' /= eastern

\* C36: time_until_market_open returns the earliest instant strictly after
\* now that is a Monday-Friday at the configured open time (09:30 regular,
\* 08:00 extended): today's open if now is a weekday before the open,
\* otherwise the open of the next weekday, Saturday and Sunday skipped; the
\* seconds returned are positive; and the wait of the closed branch tests
\* the market hours before every poll: no poll begins with the market open,
\* and a poll moves the clock by one increment.
C36_WaitsForNextOpen ==
    [][/\ ClosedBegins =>
             \E opens \in {call'.opens} :
                OpensAsStated(eastern, settings.extended, opens)
       /\ ClosedPoll =>
             /\ ~is_market_hours(eastern, settings.extended)
             /\ eastern' = Later(eastern)]_vars

\* Friday at or after the open: the next open is Monday's
C36_Witness ==
    /\ call.op = "loop"
    /\ pc = "closed"
    /\ eastern.weekday = 4
    /\ eastern.minute >= OpenMinute(settings.extended)
    /\ call.opens.next_open.weekday = 0
    /\ call.opens.secs > 2 * 1440 * 60

-----------------------------------------------------------------------------
(* The scheduler on a market that gives no signal: every cycle returns and
   changes nothing, so the loop can go round for ever *)

QuietMarkets ==
    {m \in Markets : \A s \in Symbols : m[s].action = "HOLD"}

\* the steps of main; signal_handler is the environment's
MainStep ==
    \/ LoopTest
    \/ CycleBegins
    \/ \E market \in QuietMarkets : CycleEnds(market)
    \/ IntervalWait
    \/ IntervalSleep
    \/ ClosedTest
    \/ ClosedSleep
    \/ CryptoWait
    \/ CryptoSleep

NextQuiet == signal_handler \/ MainStep

\* every cycle and every sleep increment returns: main is never stopped for
\* ever at a step it can take
SpecQuiet == InitScheduler /\ [][NextQuiet]_vars /\ WF_vars(MainStep)

\* main is past the loop, at the session summary
Terminated == pc = "shutdown"
AllSleeps == SleepSites \cup {"closed_sleep", "crypto_sleep"}
SleepBegins == pc \notin AllSleeps /\ pc' \in AllSleeps

\* C37: after a stop request the scheduler loop eventually reaches the
\* shutdown code, every cycle and every sleep increment returning; the
\* waits between the ticks and for the open are made of short increments
\* with the running flag tested before each, so that after a request no
\* further increment begins: a request during a sleep ends the loop after
\* that one increment.
C37_StopRequestTerminates ==
    /\ StopRequested ~> Terminated
    /\ [][SleepBegins => ~StopRequested]_vars

\* a stop request that arrived during a sleep between two ticks
C37_Witness ==
    /\ StopRequested
    /\ pc \in SleepSites

\* the loop has ended after a request
C37_WitnessTerminated ==
    /\ StopRequested
    /\ Terminated
-----------------------------------------------------------------------------
(* Portfolio.get_summary: the realized and unrealized parts of the P&L *)

\* sum(t.get("pnl", 0) for t in trade_history if t["action"] == "SELL")
RECURSIVE realized_pnl_of(_)
realized_pnl_of(history) ==
    IF history = <<>>
    THEN Zero
    ELSE LET t == history[Len(history)]
             rest == realized_pnl_of(SubSeq(history, 1, Len(history) - 1))
         IN  IF t.action = "SELL" THEN RAdd(rest, t.pnl) ELSE rest

\* sum(p.unrealized_pnl for p in positions.values())
RECURSIVE SumUnrealized(_, _)
SumUnrealized(pos_map, syms) ==
    IF syms = {}
    THEN Zero
    ELSE LET s == CHOOSE x \in syms : TRUE
         IN  RAdd(unrealized_pnl(pos_map[s]), SumUnrealized(pos_map, syms \ {s}))

unrealized_pnl_of(pos_map) == SumUnrealized(pos_map, DOMAIN pos_map)

realized_pnl == realized_pnl_of(trade_history)
total_unrealized_pnl == unrealized_pnl_of(positions)

C38_WitnessAveraged ==
    /\ \E i, j \in 1..Len(trade_history) :
          /\ i < j
          /\ trade_history[i].action = "BUY"
          /\ trade_history[j].action = "BUY"
          /\ trade_history[i].symbol = trade_history[j].symbol
          /\ trade_history[i].price /= trade_history[j].price
          /\ trade_history[i].symbol \in DOMAIN positions
          /\ positions[trade_history[i].symbol].current_price
                /= positions[trade_history[i].symbol].entry_price
    /\ total_unrealized_pnl /= Zero

-----------------------------------------------------------------------------
(* The buys of execute_signals against the cash test of Portfolio.buy *)

\* a size the sizing rule returns for the ledger L can be paid from its cash
SizeAffordable(L, config, price) ==
    LET quantity == calculate_position_size(L, config, price)
    IN  RGt(quantity, Zero) => ~InsufficientCash(RMul(quantity, price), L.cash)

IsBuyRecord(trade) == trade.action = "BUY"
\* the BUY records a cycle appended after the first `before` trades
BuysAppended(history, before) ==
    SelectSeq(SubSeq(history, before + 1, Len(history)), IsBuyRecord)

\* the ledger as it was when the first of the buys `bought` was about to be
\* made, given the ledger `after` the cycle: the cash before that buy, and
\* the positions without the ones those buys opened
LedgerBeforeBuys(after, bought) ==
    LET opened == {bought[i].symbol : i \in 1..Len(bought)}
    IN  [after EXCEPT
            !.cash = IF bought = <<>> THEN after.cash ELSE CashBefore(bought[1]),
            !.positions = [s \in DOMAIN after.positions \ opened |->
                             after.positions[s]]]

\* the buy loop replayed over the ranked signals: every signal reached below
\* the position limit with a positive size is the next BUY record, with that
\* size; no other BUY record was appended
RECURSIVE SubmittedBuysRecorded(_, _, _, _)
SubmittedBuysRecorded(after, signals, bought, config) ==
    IF signals = <<>> THEN bought = <<>>
    ELSE LET L == LedgerBeforeBuys(after, bought)
             signal == Head(signals)
             quantity == calculate_position_size(L, config, signal.price)
         IN  IF AtMaxPositions(L, config) THEN bought = <<>>
             ELSE IF RLe(quantity, Zero)
                  THEN SubmittedBuysRecorded(after, Tail(signals), bought, config)
             ELSE /\ bought /= <<>>
                  /\ Head(bought).symbol = signal.symbol
                  /\ Head(bought).quantity = quantity
                  /\ Head(bought).price = signal.price
                  /\ SubmittedBuysRecorded(after, Tail(signals), Tail(bought),
                                           config)

\* C39: for every reachable ledger, configuration and quoted price a
\* positive quantity returned by calculate_position_size costs no more than
\* the cash held, and in every executing cycle each buy that execute_signals
\* submits is recorded by the ledger: the insufficient-cash rejection of
\* Portfolio.buy is never reached from the orchestrator.
C39_SubmittedBuysSucceed ==
    /\ [](\A config \in Configs, price \in QuotedPrices :
             SizeAffordable(CurrentLedger, config, price))
    /\ [][(CycleStep /\ ~call'.scan_only) =>
            \E after \in {CurrentLedger'} : \E outcome \in {result'} :
               \E config \in {call'.config} :
                  SubmittedBuysRecorded(
                      after, outcome.buy_signals,
                      BuysAppended(after.trade_history, Len(trade_history)),
                      config)]_vars

\* a cycle bought with the cash share as the binding limit, the rounding of
\* the quantity taking the cost above nine tenths of the cash and not above
\* the cash
C39_Witness ==
    /\ call.op = "run_cycle"
    /\ ~call.scan_only
    /\ Len(result.executed) > 0
    /\ LastTrade.action = "BUY"
    /\ RGt(LastTrade.total, RMul(CashBefore(LastTrade), CashShare))
    /\ RLe(LastTrade.total, CashBefore(LastTrade))

-----------------------------------------------------------------------------
(* The fleet with strategies that fail *)

\* the fleet's markets, and those on which the analysis of AAPL raises
FleetFaultyMarkets ==
    FleetMarkets \cup {m \in FaultyMarkets : m["BTC-USD"].action = "HOLD"}

NextFleetFaulty ==
    \/ TickStarts
    \/ \E market \in FleetFaultyMarkets, config_file \in ConfigFiles :
          run_single_bot(market, config_file)
    \/ Leaderboard

SpecFleetFaulty == InitFleet /\ [][NextFleetFaulty]_vars

BotFailed == result'.msg = "bot error"

\* the step of one strategy, failed or not, hands over to the next roster
\* entry with one more result
HandsOver(before, after) ==
    /\ after.pc = "tick"
    /\ after.next = before.next + 1
    /\ after.ticks = before.ticks
    /\ InRosterOrder(before.next, BOT_ROSTER[before.next], before.results,
                     after.results)

\* what a position file entry says of the holding, prices aside
Holding(pos) == [quantity |-> pos.quantity, entry_price |-> pos.entry_price]
Holdings(file) == [s \in DOMAIN file.positions |-> Holding(file.positions[s])]

\* the files after a failed call: those found, or those found with the
\* prices refreshed by a save the call completed, or the fresh ledger that
\* Portfolio.load saved in an empty directory; never a trade more or less
SavedLedgerKept(before, after) ==
    /\ IsPrefix(before.history_file, after.history_file)
    /\ IF before.portfolio_file.kind = "state"
       THEN /\ after.portfolio_file.kind = "state"
            /\ after.portfolio_file.starting_cash = before.portfolio_file.starting_cash
            /\ after.portfolio_file.cash = before.portfolio_file.cash
            /\ after.portfolio_file.trade_history
                  = before.portfolio_file.trade_history
            /\ Holdings(after.portfolio_file) = Holdings(before.portfolio_file)
       ELSE \/ after = before
            \/ /\ after.portfolio_file.kind = "state"
               /\ after.portfolio_file.cash = BotStartingCash
               /\ after.portfolio_file.positions = EmptyMap
               /\ after.portfolio_file.trade_history = <<>>

\* a Portfolio that was loaded holds at the failure what its file holds
NothingUnsaved(ledger) ==
    ledger.cash /= None =>
       ledger.portfolio_file
          = SavedState(ledger.starting_cash, ledger.cash, ledger.created_at,
                       ledger.last_updated, ledger.positions,
                       ledger.trade_history)

\* run_all_bots has returned: one result for each roster entry, in order
OneResultEach ==
    fleet.pc = "ranked" =>
       /\ Len(fleet.results) = Len(BOT_ROSTER)
       /\ \A i \in 1..Len(BOT_ROSTER) : fleet.results[i].bot_id = BOT_ROSTER[i]

\* C40: in a fleet tick a strategy that fails (its configuration missing or
\* malformed, or an exception in its cycle) still yields its one result and
\* hands over to the next roster entry, which runs in the same tick; its
\* persisted ledger is as its last completed save left it, the other
\* directories are untouched, and the finished tick has exactly one result
\* for each roster entry.
C40_FleetFailureContained ==
    /\ []OneResultEach
    /\ [][BotStep =>
            \E bot_id \in {call'.bot_id} :
            \E before \in {data_dirs} : \E after \in {data_dirs'} :
            \E ledger \in {result'.ledger} : \E was \in {fleet} : \E is \in {fleet'} :
               /\ HandsOver(was, is)
               /\ OthersUntouched(bot_id, before, after)
               /\ BotFailed =>
                     /\ SavedLedgerKept(before[bot_id], after[bot_id])
                     /\ NothingUnsaved(ledger)
                     /\ is.results[was.next].trades_this_cycle = 0]_vars

\* the result of roster entry i stands for a failed cycle although its
\* directory holds positions
FailedHolding(i) ==
    /\ data_dirs[BOT_ROSTER[i]].portfolio_file.kind = "state"
    /\ data_dirs[BOT_ROSTER[i]].portfolio_file.positions /= EmptyMap
    /\ fleet.results[i].summary.num_positions = 0

\* a strategy holding a position failed in its cycle, and a strategy after it
\* in the roster has traded in the same tick
C40_Witness ==
    /\ call.op = "run_single_bot"
    /\ result.msg = "bot"
    /\ fleet.results[Len(fleet.results)].trades_this_cycle > 0
    /\ \E i \in 1..(Len(fleet.results) - 1) : FailedHolding(i)

\* a strategy without a readable configuration left its directory empty, the
\* strategies after it ran, and the tick ended with five results
C40_WitnessNoConfig ==
    /\ fleet.pc = "ranked"
    /\ \E i \in 1..(Len(BOT_ROSTER) - 1) :
          /\ data_dirs[BOT_ROSTER[i]].portfolio_file.kind = "absent"
          /\ \E k \in (i + 1)..Len(BOT_ROSTER) :
                fleet.results[k].trades_this_cycle > 0

\* the constructor of a strategy failed after Portfolio.load had saved the
\* fresh ledger in its empty directory
C40_WitnessAfterLoad ==
    /\ call.op = "run_single_bot"
    /\ call.config_file = "bad_strategy"
    /\ result.msg = "bot error"
    /\ fleet.ticks = 1
    /\ data_dirs[call.data_dir].portfolio_file.kind = "state"

====
